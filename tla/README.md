# Risu Elf in TLA+

Risu Elf is a panel inside RisuAI, a character-chat program, and a local backend
(`src/pyserver`) the panel talks to. A user edits a chat, a bot card, a lorebook and
long-term memory in *working copies* the backend holds, alone or with an agent that
proposes changes; when he says so, the panel (`src/plugin/src`) writes the working copy
back into RisuAI. RisuAI can change the same material at any time, the backend's handlers
run in a thread pool over one SQLite connection, calls get lost, and RisuAI offers no
compare-and-set and no undo. This directory holds TLA+ models of the parts that have to
stay right under all of that, the TLC configurations that check them and the TLAPS proofs
of their main properties.

    Merge            decide: the three-way rule for one row              (pure)
    ChatSync         one chat's turns in two places: uploads, conflicts, write-back
    TurnOrder        the numbers that order the turns, and what inserts and joins them
    LoreSync         a chat's lorebook in two places, paired without ids
    Gate             what the approval gate promises                     (abstract)
    Staging          the proposals for the transcript and their approval
    Actions          the queue of the agent's other writes
    Snapshots        the saved states of a chat or card, and what overwrites it
    Session          the agent's turns, their history and permission prompts
    Scripts          the agent's Python runs: shared files, spool, snapshot
    JobLife          what the row of an image batch tells                (abstract)
    StudioJob        image batches: threads, slot, cancel, the tool that waits
    *Proofs          the theorems of a module (ChatSyncProofs: of ChatSync and LoreSync)
    MC*              small instances for TLC; one .cfg per run

Run `tlc -config X.cfg MCModule.tla` and `tlapm XProofs.tla`. `PROJECT.json` lists the
runs, for every definition the source lines it models, for every property a plausible
mistake in the code that breaks it, the hazards the properties are for and the places
where the code and its own documentation disagree.

## 1. The system

| part | state | operations | talks to |
|---|---|---|---|
| chat turns (`store.py`, `merge.py`, `conflicts.py`, `host.ts`, `state.ts`) | working turns, baseline, conflict marks; RisuAI's live chat; the patch a write-back carries | upload, merge, edit, insert, delete, split, join, bulk replace, reset, resolve, patch, write, verify, commit, re-read | host by the plugin API, snapshots |
| staged proposals (`staging.py`, `main.h_approve`) | `staged_edits` rows and their status | stage, stage_many, decide, apply_approved, clear | turns; the agent's tools |
| action queue (`actions.py`, `state.decideAction`) | `pending_actions` rows and their status | propose, decide, execute, hand over, report, clear | every writer of a working copy; host writes |
| snapshots (`snapshots.py`) | `checkpoints`, `card_checkpoints` | create, prune, delete, clear, rename, restore | called by reset, restore, resolve, commit |
| lorebook, memory (`store.py`, `memory.py`) | entries and summaries with original and origin; order | merge, edit, add, delete, move, reset, restore, patch | same upload and write-back as the turns |
| bot card (`card.py`) | fields, greetings, regex and trigger scripts | the same | card write-back |
| agent session (`session.py`, `permits.py`, `agent.py`) | history, side events, stop marks, pending permissions | run a turn, stop, drain, save partial history, ask, decide, time out | tools that stage and propose |
| studio batches (`studiojob.py`) | job rows, one thread each, a cancel set, one slot | start, generate one by one, cancel, degrade, finish | NovelAI, files |
| assets (`assets.py`, `assets.ts`) | blobs by content, keys, manifests, pulls | sync, upload, pull, adopt, collect garbage | RisuAI's storage |
| database (`db.py`) | one connection, one lock, a depth counter; schema version | execute, transaction, migrate | all of the backend |
| transport (`transport.ts`) | a binding to one backend | call, raw or chunked upload, fall back | all of the plugin |
| files (`files.py`, `workspace.py`) | the file space, part files | upload in chunks, move, extract, delete | agent tools, studio |
| updater (`updater.py`, launchers) | versions on disk, a pending restart | check, verify, install, restart | GitHub |
| leave guard (`leaveguard.ts`) | which front is dirty | block switching, offer apply or discard | actions' one-dirty-front rule |
| settings, providers, search, sandbox, studio prompts, formats, rendering, tooling | settings files or none | | outside services, the operating system |

### What is hard, and what makes each part correct

* **Turns.** Three copies of every turn (RisuAI's, the baseline, the working copy) and
  flows made of awaits with nothing locked between them. Right when an open never loses
  the panel's edits and never absorbs RisuAI's unseen; when a write-back overwrites only
  what it was computed against; when a lost re-read or a dropped write can be retried to
  the end; when a conflict can always be decided.
* **Proposals.** Old by the time they are approved, approved by several presses, applied
  one committed statement at a time. Right when only approved proposals reach the
  transcript, none is filed as applied that was not, and none overwrites a turn that
  changed since.
* **Actions.** A queue whose last step may run in another process that can go away.
  Right when the queue says what happened.
* **Snapshots.** Housekeeping that deletes rows while another request relies on one.
  Right when what is about to be overwritten is saved, and the user's own saves are not
  crowded out.
* **Order of turns.** A dense number under a unique index, renumbered in two passes;
  requests of several commits from two threads. Right when turns keep their order and no
  text is lost.
* **Lorebook, memory, card.** The turns' problem with order and an origin lifecycle, and
  entries that carry no id: pairing is a guess. Right when an open accounts for every
  entry and a write-back takes only what the user decided about.
* **Session, permits.** A stop, a time-out and an answer race; two turns of one session
  share marks by its id. Right when a permission never outlives its turn and a prompt
  stays in the history.
* **Script runs.** Runs of one bot share a code file, a snapshot and a spool, and their
  processes outlive the backend. Right when a run's proposals all arrive, once.
* **Studio.** A thread per job and a row per job. Right when every job ends and its row
  says how.
* **Database, transport, files, assets, updater.** Partial failure and restart.

## 2. Plan

The order follows what a user can lose.

| module | state |
|---|---|
| `Merge`, `ChatSync`, `Staging`, `Actions`, `Snapshots` | modelled, checked, proved |
| `Gate` with `Staging`, `JobLife` with `StudioJob` | refinements checked and proved |
| `StudioJob`, `Scripts`, `Session`, `TurnOrder`, `LoreSync` | modelled, checked, proved |
| `CardSync`, `MemorySync` | next: the card's fields and scripts with the global lorebook (the merge of `LoreSync` with other keys, two plugin calls per write-back), and summaries |
| `Transactions` | nested `db.transaction` and the migrations |
| `AssetSync`, `Updater`, `Files`, `Transport` | the upload queue and garbage collection; the swap of `app/`; chunks at an offset; fall-backs |

Every safety property the runs check is a theorem now (section 6); what the planned
modules add will want the same.

## 3. The modules and the code

All parameters are CONSTANTS with a named ASSUME. In every module a backend statement
outside `db.transaction` is one step, because `db.execute` takes the lock and commits by
itself; a block under `db.transaction` is one step, because the lock is held throughout
(`TurnOrder` looks closer). A plugin flow is one action per stretch between two awaits,
a generator of the backend's event loop one per stretch between two yields or awaits.

### Merge

`Decide(ours, base, theirs, dirty, tier)` is `merge.decide`, and `DecideMissing` the
branch of `merge.plan` and `store._merge_turns` for a row RisuAI no longer has. Bodies
are values of a set: the code compares them for equality only.

### ChatSync

A copy of the chat is a function from message ids to texts, `Absent` for none. `host` is
RisuAI's, `base` is `turns_original`, `work` is `turns`, `flag` is `conflict_json`.
`StartUpload` reads RisuAI's chat (`state.chatAt`), the `Ingest*` actions store it
(`store.ingest_chat`: refused as a stub, loaded whole, or merged), possibly after other
changes; `LoseUpload` is a call that never arrives. `SetBody`, `DeleteTurn`,
`InsertTurn`, `ResetWorking`, `SaveSnapshot`, `RestoreSnapshot` edit the working copy.
`KeepMine` and `TakeTheirs` are `conflicts.resolve`. A write-back of writer `w` (the
bar's button or an approved action) goes TakePatch, CheckHost or RefuseWrite, SetChat,
ReadBack, and for the bar StartReread, which are the awaits of `state.writeBack` and
`host.writeChat`; `LoseCommit` and the dropped write of `SetChat` are its failures.
`RisuEdit`, `RisuDelete`, `RisuAdd` are external: RisuAI's user.

### TurnOrder

`rows` is the table `turns` as the one connection sees it, `disk` what is committed:
they differ when a statement failed under the lock, for nothing rolls it back and
anybody's next commit (`OtherCommit`, or a step of another request) commits it. A row
has a number, a text (a sequence of pieces) and the request that made it. A request is
one of delete, insert, split, join, reset and rewrite (a restore or an upload) and goes
through its statements one at a time: `List` then `Passes` is `_renumber`, whose listing
is before the lock and whose two passes are under it; `Anchor` then `PlaceTurn` is
`insert_turn`; `Split`, `Shorten` and an insertion are `split_turn`; `Fetch`, `Keep`,
`Drop` are `merge_turns`; `Reset`, `Refill` are `reset_working`. A join puts what it read
in the order of the numbers it read (`InOrder`); read at different times two may bear
one number, and then either may come first. A transcript is what `Line` makes of the
rows: the turns, their texts, and which comes before which. `was`, `met`, `slipped` and
`loose` are history; `loose` is the text whose loss was asked for, that a split holds
between its two commits, or that a split or join which met another request wrote over.

### LoreSync

`lore` is `lore_entries` of one chat and `list` RisuAI's side: an entry, the baseline it
was last seen with (`original_json`), its `origin` and its conflict mark. `Open` is
`ingest_lore` on a chat already seen: `Matchings` are the pairings `merge.match` can
give (exact content, then titles, then texts, then position; a list is a set here, so
any pairs by position), and `Merged` is `_merge_lore`, with `Folded` for what both sides
added. `Load` is the first sight and the forced reload. `Add`, `Update`, `Delete` keep
the origin as the store does, a deletion as a row that waits. `ResolveLore` and `Reset`
are the decisions, `Clear` and `PutBack` the two commits of `restore_lore_rows`, `Crash`
a stop between them. `WriteLore` is the patch, the check of `host.checkList` and the
write in one step, by the bar's button or by an approved `host_writeback`, which does
not wait for the conflicts; what falls between check and write is in `ChatSync`.
`touched` is history. No name here is one of `ChatSync`'s, so that `ChatSyncProofs` can
extend both.

### Gate, Staging

`row` and `status` are `staged_edits`; `ToolCall` computes a proposal from the transcript
as it is and `StoreRow` inserts it. A request of `/approve` goes Press, (Answer), Decide,
RefuseScope or Select, CheckRow by row, Apply by row (edits, inserts, deletes in the
code's order), Mark. `UserEdit`, `OtherScope`, `ClearStaged` and `Crash` fall anywhere
between. `effects` counts how often a proposal was carried out and `moved` which turns
changed since a request selected its rows: history only.

`Gate` is what the first lines of `staging.py` promise: the transcript changes by the
user's hand or by an allowed proposal, a verdict is final, and a proposal says the same
from its verdict on. `ImplementsGate` maps `approved` and `applied` to allowed. Nothing
is promised about how often an allowed proposal is carried out, since two presses, or a
restart before the marking, do it twice.

### Actions

`target` says what an action writes: a chat's working copy, the card's, RisuAI itself
(`HOST_KINDS`) or none. A call goes Read, then Reject, or CheckFronts, then HandOver or
Execute, then Finish; for a host action the plugin goes on with CarryOut and Report, or
Abandon where the panel closes or an answer is lost. `dirty` is what `dirty_summary`
computes. `UserEdit` carries the leave guard's rule: the user edits one front while no
other is dirty. `mixed` is history: actions two calls, or a call and a restart, met on.

### Snapshots

`saved` is the table with ids in the order of `created_at`; `cur` is the working copy, by
which parts the user changed. A request goes (Fold), Read, Insert, (Prune), Trim, and then
what it was for: Overwrite by restore, reset or `resolve_all`, one row and one snapshot at
a time. The export is made, and `created_at` taken, before the INSERT, so the rows of two
requests may arrive in the other order. The same functions serve `card_checkpoints`.
`mine`, `moved` and `cut` (requests a restart stopped before their pruning) are history.

### Session

`turn` is where the generator of `session.run` is: nothing keeps a second turn of the
session from starting before the first is closed. `hist` is the newest stored history and
`base` the one a turn read, both by the prompts in them; `compacted` is
`agent.COMPACTED`, kept by session and not by turn. `Begin`, `Read`, `Prepare` (the
summary), `Reply`, `Done`, and `Cut` (failure or a closed client, with
`_save_partial_history`), `Vanish` (closed at the first yield, before the `try`).
`Ask`, `Decide`, `Look`, `GiveUp` are the two ends of a prompt in `permits.py`; `always`
is a standing permission; a turn's end takes all prompts and permissions of the session.

### Scripts

`at` is where a call of `run_python` is; `code`, `scope`, `stamp`, `spool` are the files
all runs of a bot share; `proc`, `runs`, `seen`, `wrote` are the process: the code and
the snapshot it read when it started, the lines it appended. The tool goes building (the
snapshot, if its stamp is old), stamping, ready, coded, spawned, waits (until it ended,
was killed by a stop or its time was up), harvests, read, staging, done. `Crash` stops
the backend and leaves processes and files. Removing the old snapshot and creating the
new one is one step.

### JobLife, StudioJob

`state`, `saved`, `failed` are the row of `jobs`, `worker` where the batch's thread is,
`gate` the slot `_GEN_GATE`, `cancel` the set `_cancel`, `files` the images on disk,
written before the row counts them. `Dies` is an exception outside the per-image `try`,
`Crash` the backend's stop: the row stays as it was. `waits` and `stopped` are the
agent's tool that waits for a batch and the session's stop mark it looks for. `JobLife`
is the row as everyone who polls it may rely on it: it waits, runs, counts its images,
ends once.

## 4. What the runs show

Bounds are CONSTANTS of the .cfg files; sets of model values are symmetry sets in the
runs without liveness. Where deadlock is not checked, the users and requests of that
instance run out.

| run | instance | shows |
|---|---|---|
| `ChatSync` | 2 ids, 3 texts, 2 edits a side; 715,172 states | with lost uploads and commits, dropped writes and stub reads: opening a chat keeps the panel's edits and never takes RisuAI's edit of a known turn into the baseline unseen; a write-back changes only what its patch was computed against; every open conflict can be answered both ways |
| `ChatSync_live` | 2 ids, 2 texts, 1 edit a side; 10,806 | both sides converge once editing stops, whatever is lost, see fairness |
| `ChatSync_conflict_dropped` | as `ChatSync` | found: opening a chat again clears an undecided conflict's mark, and the button is enabled |
| `TurnOrder` | 3 turns, 2 requests of any kind, a stop; 161,205 | a request no other met leaves the transcript it promised, numbered and committed; turns that stay keep their order unless one came in between a listing and its passes; no step loses text but what was to go or what a split or join that met another wrote over |
| `TurnOrder_exact` | as `TurnOrder` | found: a renumbering whose listing an insert overtook clashes and leaves an order nobody asked for |
| `LoreSync` | 3 rows, entries of 2 titles and 2 texts, 2 edits on either side, a restore; 264,297 | an open loses nothing the panel holds of its own, and every entry of RisuAI's becomes the baseline of exactly one row; a write-back, with or without open conflicts, takes from RisuAI only entries of rows the user edited, restored or decided or that show an open conflict, through a restore cut in two |
| `Staging` | 2 proposals, 2 requests, an edit, a restart; 760,434 | applied means carried out; an approved edit or deletion takes away only the text it was proposed against or what changed after the request looked; the handlers implement `Gate` |
| `Actions` | 2 actions, 2 calls, an edit, a restart; 735,903 | the queue tells the truth about an action one decision worked on, done means carried out |
| `Snapshots` | 2 parts, 2 requests, 4 snapshots, limits 2 and 3; 1,127,338 | what is overwritten is saved, automatic rows crowd out named ones only within their share of the list |
| `Session` | 2 turns, 2 prompts of 2 kinds; 588,335 | nothing runs that was not allowed; a prompt stays in the history; a standing permission lets through only its own turn's commands unless turns overlap |
| `Scripts` | 2 runs, 2 chats, an edit, a restart; 300,572 | a run that meets no other runs its own code on a fresh snapshot and stages every line it wrote; a line is staged twice only by runs that overlapped; no run reads a snapshot older than the timed edits before it |
| `StudioJob` | 2 batches of 2 images, a fault; 105,608 | one batch at a time; the row says what happened and follows `JobLife`; after a cancel at most one image is written; every batch ends unless its thread was lost; a stop reaches the batch the turn waits for |

Each "found" is a disagreement between the code and a sentence of its own comments or
docstrings; `PROJECT.json` quotes the sentence.

**Why the bounds are enough.** The rules of `Merge` compare three values for equality,
so three bodies give every pattern of base, ours and theirs, and two message ids a row
that was seeded and one that is added, dropped or inserted on either side; two edits a
side let each conflict arise, be merged again and be decided. Two titles and two texts
let two entries of `LoreSync` cross over in both, so that each rule of the pairing finds
something, and two edits give a conflict, a deletion that waits and an entry both added;
the two edits may fall on one side or one on each. In the request modules each hazard
needs two actors and one other event, and every instance has them; three turns are the
least with an order between two that stay while one comes or goes. In `Snapshots` `Keep
= 2` and `Cap = 3` put both limits within reach of four snapshots, with room for two
requests between INSERT and pruning; the code's defaults are 5 and 50. What the bounds
cut off are longer histories and more rows; the theorems below cover those.

**Fairness.** `ChatSync_live`: `FlowsProceed` is weak fairness of the steps of a
write-back and of storing an upload: an await is answered one way or another (every call
has a time-out) and nothing in a flow waits for the user. `UserPersists` is an
assumption about the environment and not a claim about the code: the user goes on
opening the chat, deciding conflicts and pressing the button, and RisuAI keeps a write
and a call gets through now and then (strong fairness). Under it no refusal is final.
`StudioJob`: weak fairness of each batch's thread (requests to NovelAI time out, a
thread waiting for the slot polls) and of the tool's look every 1.5 seconds; users,
faults and the tool's giving up are free. That suffices for several batches in the
queue, because the slot is given back after every batch and each that waits is bounded
by those before it in the finite instance. The other modules claim no liveness: their
waits end by a clock of their own (`permits.decision`, the script's time-out).

## 5. What the passing properties leave open

The statements say where they stop; these are behaviours of the code the models have.

*Turns and conflicts.* Taking RisuAI's side of a turn deleted here and edited there
deletes RisuAI's turn (`conflicts.py:132` against `:20`). An approved `host_writeback`
starts while a conflict is open, which the button may not (`state.ts:1762`,
`main.py:1700`). A turn inserted in the panel and written without a re-read has no
baseline, and an edit of it in RisuAI is absorbed at the next open (`NoSilentRebase`
speaks of turns with a baseline). Edits made between a patch and the re-read that follows
the write are discarded by it.

*Order.* A clash leaves negative numbers, not committed and not rolled back, which
anybody's next commit stores; the rest of the transcript then reads reversed in front,
and later renumberings keep that order or clash again (`OrderKept` exempts `slipped`). A
split or join that meets another request writes the text it read, so an edit in between
is lost (`loose` has it);
the second half of a split goes when the backend stops, or its anchor is deleted, between
the two commits; a reset stopped between its two leaves no turns.

*Lorebook.* An entry RisuAI deleted cannot be written past again whichever side is
chosen: the baseline still lists it, so `checkList` refuses until a forced reload, and
"mine" on an `original` row counts as 0 changes (`conflicts.py:16`). A restore puts the
captured baseline back with the entries (`store.py:956`): where RisuAI has moved on
since the snapshot, the restored list counts as 0 changes and the next open replaces it
by RisuAI's, the very thing `snapshots.py:137` says of turns that it no longer does. An
open between the two commits of a restore doubles the entries. A reset leaves the text
of an undecided weak match as it stands, with origin `original`, and a later write-back
reverts RisuAI's entry to it: `WritesOnlyAccounted` counts a mark the user reset as
decided. And an approved `host_writeback` overwrites RisuAI's side of an undecided
conflict: an untouched row paired by position has its baseline moved to RisuAI's entry
and keeps its own text, an edit of another row makes the list go, and `checkList`
compares RisuAI with the moved baselines and agrees. `main.py:1700` calls writing one
side of a conflict "the silent revert this release removes"; the property exempts rows
that show the mark, and says that no other row nobody touched is ever written over. A
deletion that was written back and not re-read comes up as dropped by RisuAI.

*Approvals.* Two approvals pressed at once, or a restart between the writes and the
marking, carry an approved proposal (`effects` reaches 2) or action (`ran` reaches 2) out
twice; `AloneTellsTruth` speaks of actions one decision worked on. An approval that is
refused leaves its proposals approved, in no list, for the next approval to apply
(`main.py:844`). A host action whose answer is lost stays approved, in no list
(`actions.py:169`), and one whose write RisuAI did not keep is filed as done
(`state.ts:1763`). Two approvals that both checked can leave two dirty fronts: the
theorem `FrontsAreGuarded` exempts what got dirty after the check. A write that fails
half-way leaves a batch applied in part.

*Snapshots.* `OverwritesAreSaved` speaks of a working copy that did not change since it
was read, and of a snapshot the user did not delete, the next restore did not fold and
no `autoBackupKeep` or `checkpointKeep` newer ones crowded out. Automatic backups are
pruned by age alone: taking RisuAI's side of more conflicts than `autoBackupKeep` prunes
the backup of the first (`conflicts.py:157`), and the one a write-back took goes when
enough newer ones exist. What the user changes between a snapshot and the overwrite is
in neither. A row is inserted before its kind is pruned, so the list holds more
automatic rows than `autoBackupKeep` while requests are between the two, and for good
(to the next pruning) where a restart stopped them there; its last DELETE counts them
all, so named versions go earlier by as many (`VersionsKept` counts both).

*Sessions.* A turn closed at its first yield, or by a restart, leaves no prompt; a turn
cut off after its history was summed up can lose its prompt to the next one, which stores
the remembered summary (`PromptIsKept` exempts both). The end of one turn takes the
prompts and standing permissions of an overlapping one with it.

*Scripts and batches.* Edits of the lorebook and scripts, and deletions, do not move the
stamp, so a run reads an older snapshot (`pyexec.py:110`); a script started after a stop
has looked runs to its time-out; the lines of a run cut off by a restart are dropped when
another chat's run harvests them. A batch whose thread was lost stays running in its row
for ever (`EveryBatchEnds` exempts `orphans`).

## 6. What is proved

For every value of the constants that meets the named ASSUME. The proofs are in modules
of their own that extend the component's module; each follows one argument, an inductive
invariant kept by every action, and an action property from it.

* `ChatSync`: `TypeCorrect`; `ConflictsAlwaysDecidable` (inductive with the types: a mark
  implies a row, and the side it offers is in the baseline); `EditsSurviveReopen` and
  `NeverSilentlyRebased`, which rest on three lemmas about the merge of a single turn;
  `OverwritesAreGuarded`, from the invariant `CheckedChange`: what a checked write-back
  is about to change is what its patch was computed against *in the chat as the writer
  read it*. The weaker reading is needed since nothing is locked after the check.
* `Staging`: `TypeCorrect`; `NothingUnapproved` and `AppliedIsApplied`, inductive with
  `SelectedStay` (rows a request selected stay approved or applied, as no answer, clear
  or restart touches a row that is not pending) and `DoneInOrder` (what a request no
  longer has left was carried out); `ApplyIsGuarded`, from `Fitting`: what a request found
  to fit goes on fitting the transcript, or the turn is noted as changed since;
  `StagingImplementsGate`, the refinement, which also needs `DeletesClear`, that a proposal
  to delete says so to the end.
* `Actions`: `TypeCorrect`; `QueueTellsTruth` and `DoneIsCarriedOut` from `Telling`,
  which adds that an action no two calls met on is in one call's hands (`Sole`), what
  the row says in each phase (`InStep`) and what a call has seen before it reports
  success (`Evidence`); `FrontsAreGuarded` from `Checked`.
* `Snapshots`: `TypeCorrect`, which includes that ids are unique and in order; that a
  thinned list stays well formed is the lemma `Thinned`. `OverwritesSaved` rests on `Held`
  (the row a request waits to overwrite for holds what it read) and `Own` (the only backups
  of restores are a restore's own), and on counting: few newer rows crowd nothing out of
  the newest n. `NamedVersionsKept` rests on `Few`: every automatic row above the limit is
  accounted for by a request that will prune or one a restart kept from it. Proving showed
  cases the first statements left out and a limit of one hid: with room for two automatic
  rows the list can hold more of them than its limit, and a restore folds the backup another
  restore relies on. The statements now name those cases and the run has them.
* `StudioJob`: `TypeCorrect`, `SlotIsHeld`, `RowsAreTrue`, `CancelIsHeard` and the
  refinement `StudioJobImplementsJobLife`, all from one invariant: where a thread is says
  what its row says (`Row`), and a cancel is in the set for as long as the thread has a
  look left (`Heard`).
* `Scripts`: `TypeCorrect`, `LoneRunsItsOwn`, `LinesLand`, `NoLineTwice`, `LinesBelong`,
  `SnapshotIsFresh`. `Lone`: a run that met nobody is the only active one. `Gone`: a line
  in hand has left the spool unless its reader is about to remove the file. `Stamped`:
  the snapshot is never older than its stamp. `Landed`: where a lone run's lines are.
* `Session`: `TypeCorrect`, `OnlyAllowedRuns`, `TurnTakesAll`, `PromptsStay`,
  `AlwaysIsForOneTurn`. `Standing`: prompts and permissions belong to a turn that is on.
  `Kept`: the prompts that have to stay are in the newest history, in what every running
  turn read and in a remembered summary, which are all that can be stored next.
* `TurnOrder`: `TypeCorrect` and `OrderStays`, from lemmas about the two passes: numbers
  handed out in two passes of which the first is negative clash with nothing (`Reached`),
  and keep the order of what was listed (`PassesKeepOrder`). The invariant says a listing
  numbers its rows below their count (`SeenOK`), new rows bear ids nobody listed
  (`Fresh`), and, unless a turn slipped in: nothing is left negative (`NonNeg`), a
  listing meets every row in order or none (`InStep`), and what is committed is on the
  connection (`Ahead`). `TextStays`: what a request has at each statement (`Kinds`), texts
  are sequences of pieces (`Texts`), an inserted turn is on its request's row (`Named`), two
  at work have met (`Meet`), a split or join that met nobody still has what is on the rows,
  and the turn a join keeps has the text of all (`Joins`), and what is on the rows is
  committed or let go (`Saved`, which a restart needs). `AloneKeepsItsWord`: `Stage` says
  how far a request has come with its promise at every statement, `Solo` that the steps
  meanwhile are its own or mere commits; lemmas relate each statement to the change of the
  transcript it makes (`LineLess`, `LineSays`, `LinePlus`), the passes and the shift go
  through where no number is negative (`PassesGoThrough`, `PlaceKeepsOrder`), and rows of
  distinct numbers have one order (`OneOrder`). Where an induction over numbers is needed
  (how far the updates come, the text of many on end, the first place where two orders
  differ), it is an argument about a least number, whose existence (`Least`) comes from the
  well-foundedness of finite sets.
* `LoreSync`, in `ChatSyncProofs`: `LoreTypeCorrect`, `WritesAccounted`, `OwnSurviveOpen`,
  `OpensAccount`, from `LoreInv`: the types, finitely many entries of RisuAI's, a saved row has a baseline or
  was added in the panel, and a row nobody decided says what its baseline says. The three
  rules pair nothing twice (`PairsAdd`, `MatchedOnce`), no list is longer than the free ids
  (`FitsInto`), and the merged rows are of three kinds (`MergeIs`: old, added, new), each
  with its baseline (`BaselineOf`).

Every invariant and action property of the passing runs is stated by a theorem. Only
model-checked: liveness (`Converges`, `EveryBatchEnds`, `StopReachesBatch`), which is out
of the prover's reach, and the violations, which are counterexamples. No definition here
is RECURSIVE; what `FlattenSeq` of the community modules computes is used only through the
lemma `OnEndOfAll`.

## 7. Not modelled

* Planned: the parts section 2 lists as next and after. The hazard of the updater is in
  `PROJECT.json` with a note instead of a property.
* RisuAI between the fresh read and the write of a write-back: the plugin API cannot
  exclude it, `GuardedOverwrite` exempts it, and no property hides that.
* In `LoreSync` the order of entries and entries that occur twice; the global lorebook,
  which twins of the same functions handle on the card's write-back.
* In `TurnOrder` two rows of one message id; saving a chat as a copy.
* In `Session` the translation of the model's stream and side events; in `StudioJob` the
  panel's polling (a poll that fails stops its timer), previews, the fall-back from
  streaming, and a second tool that waits at the same time.
* In `Scripts` the stamp counts changes; in the code it is the newest of times taken before
  the lock, which a commit that comes late with an older time does not move.
* A snapshot that fails to be written (swallowed by `conflicts._snapshot` on purpose),
  the relabelling of a snapshot, logging, wording and costs.
* Rendering, settings files, calls to model providers, web search, image generation,
  archive formats: conversions and I/O without a protocol of their own.
* Confinement of scripts by the interpreter's audit hook: what it guarantees is the
  interpreter's and the operating system's, which a model could only assume.
* The bundles `src/plugin/*.js` are generated from `src/plugin/src`; tests and release
  scripts are not part of the running system.
