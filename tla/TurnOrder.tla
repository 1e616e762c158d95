------------------------------ MODULE TurnOrder ------------------------------
(***************************************************************************)
(* The order of a chat's working turns (pyserver/app/store.py): the dense  *)
(* seq under a unique index, and the requests that change which turns      *)
(* there are: delete, insert, split, join, reset, and the rewriting of all *)
(* of them by a restore or an upload.                                      *)
(*                                                                         *)
(* Handlers run in a thread pool. A statement of db.execute commits by     *)
(* itself; the renumbering and the insert hold the lock from their first   *)
(* update to their commit. An update that meets the unique index raises,   *)
(* and what was updated before it stays on the one shared connection, not  *)
(* committed and not rolled back, until anybody's next commit.             *)
(***************************************************************************)
EXTENDS Integers, Sequences, FiniteSets, SequencesExt

CONSTANTS
    N,          \* turns of the chat, and of its baseline
    Reqs,       \* requests; a turn one inserts bears its name
    Top,       \* insert before the first turn
    Ops,        \* what the requests ask for
    MaxCrashes

ASSUME TurnOrderAssumption ==
    /\ N \in Nat \ {0} /\ MaxCrashes \in Nat /\ IsFiniteSet(Reqs)
    /\ Reqs \cap Int = {} /\ Top \notin Reqs \cup Int
    /\ Ops \subseteq {"delete", "insert", "split", "join", "reset", "rewrite"}

Turns   == 0 .. N - 1
Ids     == Turns \cup Reqs
Body(t) == << <<t, 1>>, <<t, 2>> >>
Pieces(text) == {text[i] : i \in DOMAIN text}

VARIABLES
    rows,       \* turns as the connection sees them: rows by id
    disk,       \* what is committed
    pc, op,     \* per request, the next statement, and what it was asked
    want,       \* the turns to delete or to join
    anchor,     \* the turn to insert after, to split, or that a join keeps
    cut,        \* the pieces a split leaves
    got,        \* rows a join or a split has read
    at,         \* the number an insert takes
    seen,       \* the rows a renumbering listed, and their places
    was,        \* history: the turns before the request
    met,        \* history: requests that overlapped
    slipped,    \* history: a turn came in between a listing and its passes
    loose,      \* history: text whose loss was asked for, that a request holds, or
                \* that one which met another wrote over
    crashes

asked   == <<op, want, anchor, cut>>
held    == <<got, at, seen>>
history == <<was, met, slipped, loose>>
vars    == <<rows, disk, pc, asked, held, history, crashes>>

\* How many rows come before t: its place in ORDER BY seq.
Place(rs, t) == Cardinality({u \in DOMAIN rs : rs[u].seq < rs[t].seq})

\* A chat as it is loaded: its turns by number, on rows made by whom.
Loaded(by) == [t \in Turns |-> [seq |-> t, by |-> by, text |-> Body(t)]]

\* Rows of known turns; no two of one number.
IsTable(rs) ==
    /\ DOMAIN rs \subseteq Ids
    /\ \A t \in DOMAIN rs : rs[t].seq \in Int /\ rs[t].by \in Reqs \cup {Top}

Distinct(rs) == \A t, u \in DOMAIN rs : rs[t].seq = rs[u].seq => t = u

TypeOK ==
    /\ IsTable(rows) /\ Distinct(rows) /\ IsTable(disk) /\ Distinct(disk)
    /\ pc \in [Reqs -> {"new", "fetch", "head", "keep", "drop", "anchor", "place", "list",
                        "passes", "refill", "over"}]
    /\ op \in [Reqs -> Ops \cup {"none"}] /\ want \in [Reqs -> SUBSET Ids]
    /\ anchor \in [Reqs -> Ids \cup {Top}] /\ cut \in [Reqs -> 0 .. 2 * Cardinality(Ids)]
    /\ at \in [Reqs -> Int]
    /\ DOMAIN got = Reqs /\ DOMAIN was = Reqs /\ DOMAIN seen = Reqs
    /\ \A r \in Reqs :
         /\ IsTable(got[r]) /\ IsTable(was[r])
         /\ \A t \in DOMAIN seen[r] : t \in Ids /\ seen[r][t].place \in Nat
    /\ met \subseteq Reqs /\ slipped \in BOOLEAN
    /\ crashes \in 0 .. MaxCrashes

Nothing == [t \in {} |-> 0]

Init ==
    /\ rows = Loaded(Top) /\ disk = rows
    /\ pc = [r \in Reqs |-> "new"] /\ op = [r \in Reqs |-> "none"]
    /\ want = [r \in Reqs |-> {}] /\ anchor = [r \in Reqs |-> Top] /\ cut = [r \in Reqs |-> 0]
    /\ got = [r \in Reqs |-> Nothing] /\ at = [r \in Reqs |-> 0] /\ seen = [r \in Reqs |-> Nothing]
    /\ was = [r \in Reqs |-> Nothing] /\ met = {} /\ slipped = FALSE /\ loose = {}
    /\ crashes = 0

-----------------------------------------------------------------------------
Active == {r \in Reqs : pc[r] \notin {"new", "over"}}
Goes(r, to) == pc' = [pc EXCEPT ![r] = to]

\* A statement of db.execute, or the end of a transaction: whatever was left
\* on the connection is committed with it.
Commit(rs) == rows' = rs /\ disk' = rs

TextIn(rs) == UNION {Pieces(rs[t].text) : t \in DOMAIN rs}

Starts(r, o) ==
    /\ pc[r] = "new" /\ o \in Ops
    /\ op' = [op EXCEPT ![r] = o]
    /\ was' = [was EXCEPT ![r] = rows]
    /\ met' = IF Active = {} THEN met ELSE met \cup Active \cup {r}

\* Numbers after k single updates of two passes over the rows of p, which are
\* at the places p, through the numbers f to the numbers g; n rows were listed.
Numbers(rs, p, f, g, n, k) ==
    [t \in DOMAIN rs |->
        IF t \notin DOMAIN p \/ k <= p[t] THEN rs[t].seq
        ELSE IF k <= n + p[t] THEN f[t] ELSE g[t]]

Unique(num) == \A t, u \in DOMAIN num : num[t] = num[u] => t = u

\* The updates that go through: all of them, or those before the first clash.
Reached(rs, p, f, g, n) ==
    CHOOSE k \in 0 .. 2 * n :
        /\ \A j \in 0 .. k : Unique(Numbers(rs, p, f, g, n, j))
        /\ k = 2 * n \/ ~Unique(Numbers(rs, p, f, g, n, k + 1))

Renumbered(rs, num) == [t \in DOMAIN rs |-> [seq |-> num[t], by |-> rs[t].by, text |-> rs[t].text]]

Without(S) == [t \in DOMAIN rows \ S |-> rows[t]]

-----------------------------------------------------------------------------
(* _renumber, the end of most requests.                                    *)

\* Wrong: the rows in the order they were made.
List_ById(r) ==
    /\ pc[r] = "list"
    /\ seen' = [seen EXCEPT ![r] = [t \in DOMAIN rows |->
           [by |-> rows[t].by,
            place |-> IF t \in Turns THEN Cardinality({u \in Turns \cap DOMAIN rows : u < t})
                      ELSE Cardinality(Turns \cap DOMAIN rows)
                           + Cardinality({q \in Reqs \cap DOMAIN rows : rows[q].seq < rows[t].seq})]]]
    /\ Goes(r, "passes")
    /\ UNCHANGED <<rows, disk, asked, got, at, history, crashes>>

Listed == \E r \in Reqs : pc[r] = "passes"

\* The listing, in one statement, before the lock is taken.
List(r) ==
    /\ pc[r] = "list"
    /\ seen' = [seen EXCEPT ![r] = [t \in DOMAIN rows |->
           [by |-> rows[t].by, place |-> Place(rows, t)]]]
    /\ Goes(r, "passes")
    /\ UNCHANGED <<rows, disk, asked, got, at, history, crashes>>

\* The rows its updates meet: listed, and still the same row.
Hit(r) == {t \in DOMAIN rows \cap DOMAIN seen[r] : seen[r][t].by = rows[t].by}

\* Down into the negative range and up again. A row deleted or rewritten since
\* is met by no update; a row that came since is not in the listing.
Passes(r) ==
    LET hit == Hit(r)
        p   == [t \in hit |-> seen[r][t].place]
        f   == [t \in hit |-> -(p[t] + 1)]
        n   == Cardinality(DOMAIN seen[r])
        k   == Reached(rows, p, f, p, n)
        end == Renumbered(rows, Numbers(rows, p, f, p, n, k))
    IN  /\ pc[r] = "passes"
        /\ rows' = end /\ disk' = IF k = 2 * n THEN end ELSE disk
        /\ Goes(r, "over")
        /\ UNCHANGED <<asked, held, history, crashes>>

-----------------------------------------------------------------------------
\* delete_turns, delete_range: any turns, in one statement.
Delete(r, S) ==
    /\ Starts(r, "delete") /\ S # {}
    /\ want' = [want EXCEPT ![r] = S]
    /\ Commit(Without(S))
    /\ loose' = loose \cup (TextIn(rows) \ TextIn(Without(S)))
    /\ Goes(r, "list")
    /\ UNCHANGED <<anchor, cut, held, slipped, crashes>>

\* insert_turn begins: no anchor, or one it looks up by its id.
Insert(r, a) ==
    /\ Starts(r, "insert")
    /\ anchor' = [anchor EXCEPT ![r] = a]
    /\ Goes(r, "anchor")
    /\ UNCHANGED <<rows, disk, want, cut, held, slipped, loose, crashes>>

\* split_turn begins: the turn, and how much of it stays. LookupError if it is gone.
Split(r, t, c) ==
    /\ Starts(r, "split")
    /\ anchor' = [anchor EXCEPT ![r] = t] /\ cut' = [cut EXCEPT ![r] = c]
    /\ got' = [got EXCEPT ![r] = [u \in {t} \cap DOMAIN rows |-> rows[u]]]
    /\ IF t \notin DOMAIN rows THEN c = 0 /\ Goes(r, "over")
                         ELSE c \in 0 .. Len(rows[t].text) /\ Goes(r, "head")
    /\ UNCHANGED <<rows, disk, want, at, seen, slipped, loose, crashes>>

\* The text of the turn a request inserts.
NewText(r) ==
    IF op[r] = "insert" THEN Body(r)
    ELSE LET text == got[r][anchor[r]].text IN SubSeq(text, cut[r] + 1, Len(text))

\* What a statement by row id leaves of the text of t.
Rewritten(r, t, text) ==
    [u \in DOMAIN rows |->
        IF u = t /\ rows[u].by = got[r][t].by
        THEN [seq |-> rows[u].seq, by |-> rows[u].by, text |-> text] ELSE rows[u]]

\* What a split or a join that met another writes over: it writes the text it read.
Over(r) == IF r \in met THEN TextIn(rows) \ TextIn(rows') ELSE {}

\* split_turn shortens the turn, and inserts the rest by insert_turn.
Shorten(r) ==
    /\ pc[r] = "head"
    /\ LET t == anchor[r] IN Commit(Rewritten(r, t, SubSeq(got[r][t].text, 1, cut[r])))
    /\ loose' = loose \cup Pieces(NewText(r)) \cup Over(r)
    /\ Goes(r, "anchor")
    /\ UNCHANGED <<asked, held, was, met, slipped, crashes>>

\* Wrong: the number of the anchor itself.
Anchor_Before(r) ==
    /\ pc[r] = "anchor"
    /\ LET a == anchor[r] IN
         IF a # Top /\ a \notin DOMAIN rows
         THEN Goes(r, "over") /\ UNCHANGED at
         ELSE /\ at' = [at EXCEPT ![r] = IF a = Top THEN 0 ELSE rows[a].seq]
              /\ Goes(r, "place")
    /\ UNCHANGED <<rows, disk, asked, got, seen, history, crashes>>

\* The anchor's number; LookupError if it is gone.
Anchor(r) ==
    /\ pc[r] = "anchor"
    /\ LET a == anchor[r] IN
         IF a # Top /\ a \notin DOMAIN rows
         THEN Goes(r, "over") /\ UNCHANGED at
         ELSE /\ at' = [at EXCEPT ![r] = IF a = Top THEN 0 ELSE rows[a].seq + 1]
              /\ Goes(r, "place")
    /\ UNCHANGED <<rows, disk, asked, got, seen, history, crashes>>

Rest(r) == {t \in DOMAIN rows : rows[t].seq >= at[r]}

\* Under the lock: the turns from there on move up by one, the last first, and
\* the new one takes the number.
PlaceTurn(r) ==
    LET tail == Rest(r)
        p    == [t \in tail |-> Cardinality({u \in tail : rows[u].seq > rows[t].seq})]
        f    == [t \in tail |-> -(rows[t].seq + 2)]
        g    == [t \in tail |-> rows[t].seq + 1]
        n    == Cardinality(tail)
        k    == Reached(rows, p, f, g, n)
        num  == Numbers(rows, p, f, g, n, k)
        made == [t \in DOMAIN rows \cup {r} |->
                   IF t = r THEN [seq |-> at[r], by |-> r, text |-> NewText(r)]
                            ELSE Renumbered(rows, num)[t]]
    IN  /\ pc[r] = "place"
        /\ IF k = 2 * n
           THEN /\ Commit(made) /\ Goes(r, "list")
                /\ slipped' = (slipped \/ Listed)
                /\ loose' = loose \ Pieces(NewText(r))
           ELSE /\ rows' = Renumbered(rows, num) /\ Goes(r, "over")
                /\ UNCHANGED <<disk, slipped, loose>>
        /\ UNCHANGED <<asked, held, was, met, crashes>>

-----------------------------------------------------------------------------
\* merge_turns: the rows one by one, each by its message id.
Join(r, S) ==
    /\ Starts(r, "join") /\ Cardinality(S) >= 2
    /\ want' = [want EXCEPT ![r] = S]
    /\ Goes(r, "fetch")
    /\ UNCHANGED <<rows, disk, anchor, cut, held, slipped, loose, crashes>>

\* LookupError comes after the last; a turn not there makes it certain.
Fetch(r, t) ==
    /\ pc[r] = "fetch" /\ t \in want[r] \ DOMAIN got[r]
    /\ got' = [got EXCEPT ![r] = [u \in DOMAIN @ \cup ({t} \cap DOMAIN rows) |->
                                    IF u = t THEN rows[t] ELSE @[u]]]
    /\ Goes(r, IF t \notin DOMAIN rows THEN "over"
               ELSE IF want[r] = DOMAIN got[r] \cup {t} THEN "keep" ELSE "fetch")
    /\ UNCHANGED <<rows, disk, asked, at, seen, history, crashes>>

\* The orders of the rows of S by their numbers: those read at different times may
\* have one number, and stay as the request named them. Their text on end.
InOrder(rs, S) ==
    {f \in [1 .. Cardinality(S) -> S] :
        \A i, j \in 1 .. Cardinality(S) : i < j => f[i] # f[j] /\ rs[f[i]].seq <= rs[f[j]].seq}
Joined(rs, f)  == FlattenSeq([i \in DOMAIN f |-> rs[f[i]].text])

\* Wrong: the rest goes first, and then the text is written to the one that stays.
Keep_Late(r) ==
    /\ pc[r] = "keep"
    /\ \E f \in InOrder(got[r], want[r]) :
         /\ anchor' = [anchor EXCEPT ![r] = f[1]]
         /\ Commit(Without(want[r] \ {f[1]}))
    /\ loose' = loose \cup Over(r)
    /\ Goes(r, "drop")
    /\ UNCHANGED <<op, want, cut, held, was, met, slipped, crashes>>

\* The text of all is written to the first, which stays.
Keep(r) ==
    /\ pc[r] = "keep"
    /\ \E f \in InOrder(got[r], want[r]) :
         /\ anchor' = [anchor EXCEPT ![r] = f[1]]
         /\ Commit(Rewritten(r, f[1], Joined(got[r], f)))
    /\ loose' = loose \cup Over(r)
    /\ Goes(r, "drop")
    /\ UNCHANGED <<op, want, cut, held, was, met, slipped, crashes>>

\* delete_turns of the rest.
Drop(r) ==
    /\ pc[r] = "drop"
    /\ Commit(Without(want[r] \ {anchor[r]}))
    /\ loose' = loose \cup Over(r)
    /\ Goes(r, "list")
    /\ UNCHANGED <<asked, held, was, met, slipped, crashes>>

-----------------------------------------------------------------------------
\* reset_working: one commit to empty, one to fill from the baseline.
Reset(r) ==
    /\ Starts(r, "reset")
    /\ Commit(Nothing)
    /\ loose' = loose \cup TextIn(rows)
    /\ Goes(r, "refill")
    /\ UNCHANGED <<want, anchor, cut, held, slipped, crashes>>

\* Wrong: a row that has the number is no clash.
Refill_Over(r) ==
    /\ pc[r] = "refill"
    /\ Commit([t \in DOMAIN rows \cup Turns |-> IF t \in Turns THEN Loaded(r)[t] ELSE rows[t]])
    /\ loose' = loose \ TextIn(rows')
    /\ Goes(r, "over")
    /\ UNCHANGED <<asked, held, was, met, slipped, crashes>>

\* Row by row; a clash leaves the rows before it, not committed. A turn that
\* stands under its old id is a second row of it, which ends it here as well.
Refill(r) ==
    LET free == {k \in 0 .. N : \A t \in 0 .. k - 1 :
                    \A u \in DOMAIN rows : rows[u].seq # t /\ u # t}
        k    == CHOOSE k \in free : \A j \in free : j <= k
        end  == [t \in DOMAIN rows \cup 0 .. k - 1 |-> IF t \in 0 .. k - 1 THEN Loaded(r)[t] ELSE rows[t]]
    IN  /\ pc[r] = "refill"
        /\ rows' = end /\ disk' = IF k = N THEN end ELSE disk
        /\ loose' = IF k = N THEN loose \ TextIn(end) ELSE loose
        /\ slipped' = (slipped \/ Listed)
        /\ Goes(r, "over")
        /\ UNCHANGED <<asked, held, was, met, crashes>>

\* restore_turns, ingest_chat: all rows deleted and inserted in one transaction.
Rewrite(r) ==
    /\ Starts(r, "rewrite")
    /\ Commit(Loaded(r))
    /\ loose' = (loose \cup TextIn(rows)) \ TextIn(Loaded(r))
    /\ Goes(r, "over")
    /\ UNCHANGED <<want, anchor, cut, held, slipped, crashes>>

\* Any other write of the backend.
OtherCommit ==
    /\ disk # rows /\ Commit(rows)
    /\ UNCHANGED <<pc, asked, held, history, crashes>>

\* The backend stops and starts again: what is not committed is gone.
Crash ==
    /\ crashes < MaxCrashes /\ crashes' = crashes + 1
    /\ rows' = disk
    /\ pc' = [r \in Reqs |-> IF r \in Active THEN "over" ELSE pc[r]]
    /\ UNCHANGED <<disk, asked, held, history>>

\* The turns a panel shows, which may have gone since.
Shown == Turns \cup DOMAIN rows

Next ==
    \/ \E r \in Reqs : \/ List(r) \/ Passes(r) \/ Shorten(r) \/ Anchor(r) \/ PlaceTurn(r)
                       \/ Keep(r) \/ Drop(r) \/ Reset(r) \/ Refill(r) \/ Rewrite(r)
                       \/ \E S \in SUBSET Shown : Delete(r, S) \/ Join(r, S)
                       \/ \E a \in Shown \cup {Top} : Insert(r, a)
                       \/ \E t \in Shown, c \in 0 .. 2 * Cardinality(Ids) : Split(r, t, c)
                       \/ \E t \in Ids : Fetch(r, t)
    \/ OtherCommit \/ Crash

Spec == Init /\ [][Next]_vars

-----------------------------------------------------------------------------
\* The transcript: the turns and their texts, and which comes before which.
Line(rs) ==
    [text   |-> [t \in DOMAIN rs |-> rs[t].text],
     before |-> {p \in (DOMAIN rs) \X (DOMAIN rs) : rs[p[1]].seq < rs[p[2]].seq}]

\* A transcript without the turns of S; with another text for t; with a turn n
\* that comes after those of S and before the others; up to a turn.
Less(line, S) ==
    [text   |-> [t \in DOMAIN line.text \ S |-> line.text[t]],
     before |-> {p \in line.before : p[1] \notin S /\ p[2] \notin S}]
Says(line, t, text) ==
    [text   |-> [u \in DOMAIN line.text |-> IF u = t THEN text ELSE line.text[u]],
     before |-> line.before]
Plus(line, S, n, text) ==
    [text   |-> [t \in DOMAIN line.text \cup {n} |-> IF t = n THEN text ELSE line.text[t]],
     before |-> line.before \cup (S \X {n}) \cup ({n} \X (DOMAIN line.text \ S))]
UpTo(line, t) == {u \in DOMAIN line.text : u = t \/ <<u, t>> \in line.before}

\* What a request promises: the transcript it found, changed as it was asked.
Promised(r) ==
    LET W   == was[r]
        old == Line(W)
        a   == anchor[r]
        S   == want[r]
    IN  CASE op[r] = "delete" -> Less(old, S)
          [] op[r] \in {"reset", "rewrite"} -> Line(Loaded(r))
          [] op[r] = "insert" ->
               IF a = Top THEN Plus(old, {}, r, Body(r))
               ELSE IF a \notin DOMAIN W THEN old
               ELSE Plus(old, UpTo(old, a), r, Body(r))
          [] op[r] = "split" ->
               IF a \notin DOMAIN W THEN old
               ELSE LET text == W[a].text
                    IN  Plus(Says(old, a, SubSeq(text, 1, cut[r])), UpTo(old, a),
                             r, SubSeq(text, cut[r] + 1, Len(text)))
          [] op[r] = "join" ->
               IF ~(S \subseteq DOMAIN W) THEN old
               ELSE LET f == CHOOSE h \in InOrder(W, S) : TRUE
                    IN  Less(Says(old, f[1], Joined(W, f)), S \ {f[1]})

\* A request no other met, on turns whose numbers are not left negative, leaves the
\* transcript it promised, numbered from 0 without a gap and committed, whatever the
\* requests and stops before it left behind; refused for a turn that is gone, it
\* leaves the turns as they were (delete_turns, insert_turn, split_turn,
\* merge_turns, reset_working, _renumber).
AloneDoesWhatItSays ==
    [][\A r \in Reqs :
         /\ pc[r] # "over" /\ pc'[r] = "over" /\ crashes' = crashes
         /\ r \notin met' /\ \A t \in DOMAIN (was'[r]) : was'[r][t].seq >= 0
         => /\ Line(rows') = Promised(r)'
            /\ pc[r] \in {"passes", "refill"} \/ op'[r] = "rewrite" =>
                 /\ \A t \in DOMAIN (rows') : rows'[t].seq = Place(rows', t)
                 /\ disk' = rows']_vars

Ordered(t, u) == rows[t].seq < rows[u].seq

\* However requests and stops fall, two turns that stay on their rows stay in their
\* order, unless some came in between a listing of _renumber and its passes.
OrderKept ==
    [][~slipped' =>
         \A t, u \in DOMAIN rows \cap DOMAIN (rows') :
           /\ rows'[t].by = rows[t].by /\ rows'[u].by = rows[u].by
           => (Ordered(t, u) <=> Ordered(t, u)')]_vars

\* No step loses text but what a delete, a reset or a rewrite was to remove, and the
\* rest of a split on its way to its turn; a stop at any point of a join or an insert
\* loses none (merge_turns writes before it deletes). What a split or a join that met
\* another writes over is exempt.
NoTextLost ==
    [][TextIn(rows) \subseteq TextIn(rows') \cup loose']_vars

\* The docstring of _renumber: it keeps ordering exact.
OrderIsExact ==
    [][\A r \in Reqs : Passes(r) => \A t, u \in DOMAIN rows : Ordered(t, u) <=> Ordered(t, u)']_vars
=============================================================================
