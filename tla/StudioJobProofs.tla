-------------------------- MODULE StudioJobProofs --------------------------
(***************************************************************************)
(* Theorems of StudioJob, for any number of batches and images.            *)
(***************************************************************************)
EXTENDS StudioJob, TLAPS

-----------------------------------------------------------------------------
(* Where a thread is says what its row says and how far it is.             *)

Row(j) ==
    /\ state[j] = "none" => At(j, "none") /\ j \notin asked
    /\ state[j] \in {"none", "pending"} => Through(j) = 0 /\ files[j] = saved[j]
    /\ worker[j] \in Waiting \cup {"taken"} => state[j] = "pending"
    /\ worker[j] \in {"loop", "drawing", "saved", "failed", "closing"} => state[j] = "running"
    /\ At(j, "leaving") => state[j] \in Final
    /\ worker[j] \in {"drawing", "saved", "failed"} => Through(j) < Images
    /\ At(j, "closing") => Through(j) = Images
    /\ Through(j) <= Images
    /\ worker[j] \in {"loop", "drawing", "failed", "closing"} => files[j] = saved[j]
    /\ At(j, "saved") => files[j] = saved[j] + 1

\* A cancel is in the set for as long as the thread has a look left.
Heard(j) ==
    /\ j \in cancel => j \in asked
    /\ j \in asked /\ worker[j] \in Waiting \cup {"taken", "loop", "drawing", "saved", "failed"}
         => j \in cancel
    /\ j \notin asked \/ At(j, "drawing") => late[j] = 0
    /\ late[j] <= 1

Told(j) ==
    /\ state[j] \in {"done", "partial"} => saved[j] = files[j] /\ Through(j) = Images
    /\ state[j] = "done" => files[j] = Images
    /\ state[j] = "partial" => failed[j] > 0
    /\ state[j] = "cancelled" => j \in asked /\ Through(j) < Images
    /\ files[j] \in {saved[j], saved[j] + 1}

Slot(j)   == worker[j] \in Inside <=> gate = j
\* A tool waits for a batch that was started.
Waited(j) == waits = j => state[j] # "none"
Sound(j)  == Row(j) /\ Heard(j) /\ Told(j)
IInv      == TypeOK /\ \A j \in Jobs : Sound(j) /\ Slot(j) /\ Waited(j)

LEMMA IInvInit == Init => IInv
<1> SUFFICES ASSUME Init PROVE IInv OBVIOUS
<1> USE StudioJobAssumption DEF Init
<1>0. stopped \in BOOLEAN BY Zenon
<1>1. TypeOK
  <2>1. 0 \in 0..Images /\ MaxFaults \in 0..MaxFaults OBVIOUS
  <2> QED BY <1>0, <2>1 DEF TypeOK, States
<1>2. \A j \in Jobs : Sound(j)
  BY DEF Sound, Row, Heard, Told, At, Through, Waiting, Final
<1>3. \A j \in Jobs : Slot(j) BY DEF Slot, Inside
<1>4. \A j \in Jobs : Waited(j) BY DEF Waited
<1> QED BY <1>1, <1>2, <1>3, <1>4 DEF IInv

-----------------------------------------------------------------------------
(* Every step belongs to one batch: what it leaves alone of another keeps   *)
(* that one sound.                                                          *)

SameRow(k) ==
    /\ state'[k] = state[k] /\ saved'[k] = saved[k] /\ failed'[k] = failed[k]
    /\ worker'[k] = worker[k] /\ files'[k] = files[k] /\ late'[k] = late[k]
    /\ (k \in cancel' <=> k \in cancel) /\ (k \in asked' <=> k \in asked)

LEMMA SameSound == ASSUME NEW k \in Jobs, Sound(k), SameRow(k) PROVE Sound(k)'
<1> USE DEF SameRow, At, Through
<1>1. Row(k)' BY DEF Sound, Row
<1>2. Heard(k)' BY DEF Sound, Heard
<1>3. Told(k)' BY DEF Sound, Told
<1> QED BY <1>1, <1>2, <1>3 DEF Sound

\* What a step of batch j does, seen from everywhere else.
Apart(j) == \A k \in Jobs \ {j} : SameRow(k)

LEMMA WorkerType == ASSUME IInv, NEW j \in Jobs, Worker(j) PROVE TypeOK'
<1> USE DEF IInv, TypeOK, States, Waiting, Final, Inside, At, Goes, Sets, Rest,
            thread, marks, disk, agent, faults, row
<1>1. ASSUME At(j, "drawing") PROVE files[j] + 1 \in 0..Images /\ late[j] + 1 \in 0..Images
  BY <1>1, StudioJobAssumption DEF Sound, Row, Heard, Through
<1>2. ASSUME worker[j] \in {"saved", "failed"}
      PROVE  saved[j] + 1 \in 0..Images /\ failed[j] + 1 \in 0..Images
  BY <1>2, StudioJobAssumption DEF Sound, Row, Through
<1>3. CASE Grab(j) BY <1>3 DEF Grab
<1>4. CASE Wake(j) BY <1>4 DEF Wake
<1>5. CASE CheckQueued(j) BY <1>5 DEF CheckQueued
<1>6. CASE Run(j) BY <1>6 DEF Run
<1>7. CASE Cancelled(j) BY <1>7 DEF Cancelled
<1>8. CASE Begin(j) BY <1>8 DEF Begin
<1>9. CASE Save(j) BY <1>9, <1>1 DEF Save
<1>10. CASE ImageFails(j) BY <1>10 DEF ImageFails
<1>11. CASE Record(j) BY <1>11, <1>2 DEF Record
<1>12. CASE Wrap(j) BY <1>12 DEF Wrap
<1>13. CASE Close(j) BY <1>13 DEF Close
<1>14. CASE Leave(j) BY <1>14 DEF Leave
<1> QED BY <1>3, <1>4, <1>5, <1>6, <1>7, <1>8, <1>9, <1>10, <1>11, <1>12, <1>13, <1>14
        DEF Worker

LEMMA WorkerSound == ASSUME IInv, NEW j \in Jobs, Worker(j) PROVE Sound(j)' /\ Apart(j)
<1> USE StudioJobAssumption
    DEF IInv, TypeOK, States, Waiting, Final, Inside, At, Goes, Sets, Rest, Through,
        thread, marks, disk, agent, faults, row, Sound, Row, Heard, Told, Apart, SameRow
<1>3. CASE Grab(j) BY <1>3 DEF Grab
<1>4. CASE Wake(j) BY <1>4 DEF Wake
<1>5. CASE CheckQueued(j) BY <1>5 DEF CheckQueued
<1>6. CASE Run(j) BY <1>6 DEF Run
<1>7. CASE Cancelled(j) BY <1>7 DEF Cancelled
<1>8. CASE Begin(j) BY <1>8 DEF Begin
<1>9. CASE Save(j) BY <1>9 DEF Save
<1>10. CASE ImageFails(j) BY <1>10 DEF ImageFails
<1>11. CASE Record(j) BY <1>11 DEF Record
<1>12. CASE Wrap(j) BY <1>12 DEF Wrap
<1>13. CASE Close(j) BY <1>13 DEF Close
<1>14. CASE Leave(j) BY <1>14 DEF Leave
<1> QED BY <1>3, <1>4, <1>5, <1>6, <1>7, <1>8, <1>9, <1>10, <1>11, <1>12, <1>13, <1>14
        DEF Worker

LEMMA WorkerSlot == ASSUME IInv, NEW j \in Jobs, Worker(j) PROVE \A k \in Jobs : Slot(k)'
<1> USE StudioJobAssumption
    DEF IInv, TypeOK, Slot, Waiting, Inside, At, Goes, Sets, Rest
<1>3. CASE Grab(j) BY <1>3 DEF Grab
<1>4. CASE Wake(j) BY <1>4 DEF Wake
<1>5. CASE CheckQueued(j) BY <1>5 DEF CheckQueued
<1>6. CASE Run(j) BY <1>6 DEF Run
<1>7. CASE Cancelled(j) BY <1>7 DEF Cancelled
<1>8. CASE Begin(j) BY <1>8 DEF Begin
<1>9. CASE Save(j) BY <1>9 DEF Save
<1>10. CASE ImageFails(j) BY <1>10 DEF ImageFails
<1>11. CASE Record(j) BY <1>11 DEF Record
<1>12. CASE Wrap(j) BY <1>12 DEF Wrap
<1>13. CASE Close(j) BY <1>13 DEF Close
<1>14. CASE Leave(j) BY <1>14 DEF Leave
<1> QED BY <1>3, <1>4, <1>5, <1>6, <1>7, <1>8, <1>9, <1>10, <1>11, <1>12, <1>13, <1>14
        DEF Worker


\* The steps of users and tools on one batch, and of a thread that dies.
Other(j) == Start(j) \/ StartAndWait(j) \/ Cancel(j) \/ Dies(j) \/ ToolLooks(j) \/ ToolGivesUp(j)

LEMMA OtherType == ASSUME IInv, NEW j \in Jobs, Other(j) PROVE TypeOK'
<1> USE DEF IInv, TypeOK, States, Waiting, Final, Inside, At, Goes, Sets, Mark,
            thread, marks, disk, agent, faults, row
<1>1. CASE Start(j) BY <1>1 DEF Start
<1>2. CASE StartAndWait(j) BY <1>2 DEF StartAndWait
<1>3. CASE Cancel(j) BY <1>3 DEF Cancel
<1>4. CASE Dies(j)
  <2>1. faultsLeft' \in 0..MaxFaults BY <1>4, StudioJobAssumption DEF Dies
  <2>2. gate' \in Jobs \cup {NoJob} /\ cancel' \subseteq Jobs BY <1>4 DEF Dies
  <2> QED BY <1>4, <2>1, <2>2 DEF Dies
<1>5. CASE ToolLooks(j) BY <1>5 DEF ToolLooks
<1>6. CASE ToolGivesUp(j) BY <1>6 DEF ToolGivesUp
<1> QED BY <1>1, <1>2, <1>3, <1>4, <1>5, <1>6 DEF Other

LEMMA OtherSound == ASSUME IInv, NEW j \in Jobs, Other(j) PROVE Sound(j)' /\ Apart(j)
<1> USE StudioJobAssumption
    DEF IInv, TypeOK, States, Waiting, Final, Inside, At, Goes, Sets, Through, Mark,
        thread, marks, disk, agent, faults, row, Sound, Row, Heard, Told, Apart, SameRow
<1>1. CASE Start(j) BY <1>1 DEF Start
<1>2. CASE StartAndWait(j) BY <1>2 DEF StartAndWait
<1>3. CASE Cancel(j) BY <1>3 DEF Cancel
<1>4. CASE Dies(j)
  <2>2. /\ worker' = [worker EXCEPT ![j] = "none"]
        /\ UNCHANGED <<state, saved, failed, files, late, asked>>
        /\ cancel' \subseteq cancel /\ \A k \in Jobs \ {j} : k \in cancel' <=> k \in cancel
        /\ worker[j] # "none"
    BY <1>4 DEF Dies
  <2>3. state[j] \in {"pending", "running"}
    BY <1>4 DEF Dies
  <2>4. Told(j)' BY <2>2
  <2>5. Heard(j)' BY <2>2
  <2>6. Row(j)' BY <2>2, <2>3
  <2>7. Apart(j) BY <2>2
  <2> QED BY <2>4, <2>5, <2>6, <2>7
<1>5. CASE ToolLooks(j)
  <2>1. UNCHANGED <<state, saved, failed, worker, files, late>>
    BY <1>5 DEF ToolLooks
  <2>2. \/ UNCHANGED <<cancel, asked>>
        \/ cancel' = cancel \cup {j} /\ asked' = asked \cup {j} /\ state[j] # "none"
    <3>1. state[j] # "none" BY <1>5 DEF ToolLooks, Waited
    <3> QED BY <1>5, <3>1 DEF ToolLooks
  <2>3. Sound(j)' BY <2>1, <2>2
  <2>4. Apart(j) BY <2>1, <2>2
  <2> QED BY <2>3, <2>4
<1>6. CASE ToolGivesUp(j) BY <1>6 DEF ToolGivesUp
<1> QED BY <1>1, <1>2, <1>3, <1>4, <1>5, <1>6 DEF Other

LEMMA OtherSlot == ASSUME IInv, NEW j \in Jobs, Other(j) PROVE \A k \in Jobs : Slot(k)'
<1> USE StudioJobAssumption
    DEF IInv, TypeOK, Slot, Waiting, Inside, At, Goes, Sets, thread
<1>1. CASE Start(j)
  <2>1. At(j, "none") BY <1>1 DEF Start, Sound, Row
  <2> QED BY <1>1, <2>1 DEF Start
<1>2. CASE StartAndWait(j)
  <2>1. At(j, "none") BY <1>2 DEF StartAndWait, Sound, Row
  <2> QED BY <1>2, <2>1 DEF StartAndWait
<1>3. CASE Cancel(j) BY <1>3 DEF Cancel
<1>4. CASE Dies(j) BY <1>4 DEF Dies
<1>5. CASE ToolLooks(j) BY <1>5 DEF ToolLooks
<1>6. CASE ToolGivesUp(j) BY <1>6 DEF ToolGivesUp
<1> QED BY <1>1, <1>2, <1>3, <1>4, <1>5, <1>6 DEF Other

\* No row goes back to none, and a tool waits for the batch it has started.
LEMMA WaitedStep ==
    ASSUME IInv, NEW j \in Jobs, Worker(j) \/ Other(j)
    PROVE  \A k \in Jobs : Waited(k)'
<1> USE StudioJobAssumption DEF IInv, TypeOK, Waited, Sets
<1>1. CASE Worker(j)
  <2>1. waits' = waits
    BY <1>1 DEF Worker, Grab, Wake, CheckQueued, Run, Cancelled, Begin, Save, ImageFails,
                Record, Wrap, Close, Leave, Rest, agent
  <2>2. \A k \in Jobs : state'[k] = state[k] \/ state'[k] # "none"
    BY <1>1 DEF Worker, Grab, Wake, CheckQueued, Run, Cancelled, Begin, Save, ImageFails,
                Record, Wrap, Close, Leave, row
  <2> QED BY <2>1, <2>2
<1>2. CASE Other(j)
  BY <1>2 DEF Other, Start, StartAndWait, Cancel, Dies, ToolLooks, ToolGivesUp, agent, row
<1> QED BY <1>1, <1>2

LEMMA GlobalStep ==
    ASSUME IInv, StopTurn \/ NextTurn \/ Crash \/ UNCHANGED vars
    PROVE  IInv'
<1>1. CASE StopTurn \/ NextTurn \/ UNCHANGED vars
  <2>1. UNCHANGED <<row, thread, marks, disk, waits, faults>> /\ stopped' \in BOOLEAN
    BY <1>1, Zenon DEF StopTurn, NextTurn, vars, agent, IInv, TypeOK
  <2>2. \A k \in Jobs : Sound(k)'
    BY <2>1, SameSound DEF IInv, SameRow, row, thread, marks, disk
  <2> QED BY <2>1, <2>2 DEF IInv, TypeOK, Slot, Waited, row, thread, marks, disk, faults
<1>2. CASE Crash
  <2>0. stopped' \in BOOLEAN BY <1>2, Zenon DEF Crash
  <2>4. faultsLeft' \in 0..MaxFaults BY <1>2, StudioJobAssumption DEF Crash, IInv, TypeOK
  <2>1. TypeOK' BY <1>2, <2>0, <2>4 DEF Crash, IInv, TypeOK, row, disk
  <2>2. \A k \in Jobs : Slot(k)'
    BY <1>2, StudioJobAssumption DEF Crash, Slot, Inside
  <2>3. ASSUME NEW k \in Jobs PROVE Sound(k)'
    BY <1>2, <2>3 DEF Crash, IInv, Sound, Row, Heard, Told, At, Through, Waiting, row, disk
  <2>5. \A k \in Jobs : Waited(k)' BY <1>2, StudioJobAssumption DEF Crash, Waited
  <2> QED BY <2>1, <2>2, <2>3, <2>5 DEF IInv
<1> QED BY <1>1, <1>2

LEMMA IInvStep == IInv /\ [Next]_vars => IInv'
<1> SUFFICES ASSUME IInv, [Next]_vars PROVE IInv' OBVIOUS
<1>1. ASSUME NEW j \in Jobs, Worker(j) PROVE IInv'
  <2>1. \A k \in Jobs : Sound(k)' BY <1>1, WorkerSound, SameSound DEF Apart, IInv
  <2> QED BY <1>1, <2>1, WorkerType, WorkerSlot, WaitedStep DEF IInv
<1>2. ASSUME NEW j \in Jobs, Other(j) PROVE IInv'
  <2>1. \A k \in Jobs : Sound(k)' BY <1>2, OtherSound, SameSound DEF Apart, IInv
  <2> QED BY <1>2, <2>1, OtherType, OtherSlot, WaitedStep DEF IInv
<1> QED BY <1>1, <1>2, GlobalStep DEF Next, Other

\* Every reachable state is of the declared types; that no counter passes the
\* number of images rests on where each thread is.
THEOREM TypeCorrect == Spec => []TypeOK
<1>1. IInv => TypeOK BY DEF IInv
<1> QED BY <1>1, IInvInit, IInvStep, PTL DEF Spec

\* However many batches wait for the account's slot, at most one is inside, and
\* the slot belongs to the one that is.
THEOREM SlotIsHeld == Spec => []OneAtATime
<1>1. IInv => OneAtATime BY DEF IInv, Slot, OneAtATime
<1> QED BY <1>1, IInvInit, IInvStep, PTL DEF Spec

\* A finished row tells what is on disk and that a cancelled batch was asked for.
THEOREM RowsAreTrue == Spec => []RowTellsTruth
<1>1. IInv => RowTellsTruth BY DEF IInv, Sound, Told, RowTellsTruth
<1> QED BY <1>1, IInvInit, IInvStep, PTL DEF Spec

\* After a cancel at most one more image is written, for batches of any size.
THEOREM CancelIsHeard == Spec => []CancelStops
<1>1. IInv => CancelStops BY DEF IInv, Sound, Heard, CancelStops
<1> QED BY <1>1, IInvInit, IInvStep, PTL DEF Spec

-----------------------------------------------------------------------------
(* StudioJob implements JobLife.                                           *)

LEMMA LifeInit == Init => Life!Init
<1> SUFFICES ASSUME Init PROVE Life!Init OBVIOUS
<1>1. [j \in Jobs |-> Through(j)] = [j \in Jobs |-> 0] BY DEF Init, Through
<1> QED BY <1>1 DEF Init, Life!Init

LEMMA LifeStep == IInv /\ [Next]_vars => [Life!Next]_Life!vars
<1> SUFFICES ASSUME IInv, [Next]_vars PROVE [Life!Next]_Life!vars OBVIOUS
<1>1. ASSUME UNCHANGED row PROVE UNCHANGED Life!vars
  BY <1>1 DEF row, Life!vars, Through
<1>2. ASSUME NEW j \in Jobs, NEW s, Sets(j, s) PROVE Life!Becomes(j, s)
  BY <1>2 DEF Sets, Life!Becomes, Through
<1>3. ASSUME NEW j \in Jobs, Worker(j) PROVE [Life!Next]_Life!vars
  <2> USE <1>1
  <2>1. CASE Grab(j) BY <2>1 DEF Grab
  <2>2. CASE Wake(j) BY <2>2 DEF Wake
  <2>3. CASE CheckQueued(j)
    <3>1. state[j] = "pending" BY <2>3 DEF CheckQueued, IInv, Sound, Row, Waiting, At
    <3>2. j \in cancel => Life!Withdraw(j) BY <2>3, <3>1, <1>2 DEF CheckQueued, Life!Withdraw
    <3> QED BY <2>3, <3>2 DEF CheckQueued, Life!Next
  <2>4. CASE Run(j)
    <3>1. state[j] = "pending" BY <2>4 DEF Run, IInv, Sound, Row, At
    <3>2. Life!Take(j) BY <2>4, <3>1, <1>2 DEF Run, Life!Take
    <3> QED BY <3>2 DEF Life!Next
  <2>5. CASE Cancelled(j)
    <3>1. state[j] = "running" BY <2>5 DEF Cancelled, IInv, Sound, Row, At
    <3>2. Life!Cut(j) BY <2>5, <3>1, <1>2 DEF Cancelled, Life!Cut
    <3> QED BY <3>2 DEF Life!Next
  <2>6. CASE Begin(j) BY <2>6 DEF Begin
  <2>7. CASE Save(j) BY <2>7 DEF Save
  <2>8. CASE ImageFails(j) BY <2>8 DEF ImageFails
  <2>9. CASE Record(j)
    <3>1. state[j] = "running" /\ Through(j) < Images
      BY <2>9 DEF Record, IInv, Sound, Row, At
    <3>2. [k \in Jobs |-> Through(k)]' = [[k \in Jobs |-> Through(k)] EXCEPT ![j] = @ + 1]
      <4>1. \A k \in Jobs : Through(k)' = IF k = j THEN Through(k) + 1 ELSE Through(k)
        <5>1. CASE At(j, "saved") BY <2>9, <5>1 DEF Record, Through, IInv, TypeOK, At
        <5>2. CASE At(j, "failed") BY <2>9, <5>2 DEF Record, Through, IInv, TypeOK, At
        <5> QED BY <2>9, <5>1, <5>2 DEF Record
      <4> QED BY <4>1
    <3>3. Life!Image(j) BY <2>9, <3>1, <3>2 DEF Record, Life!Image
    <3> QED BY <3>3 DEF Life!Next
  <2>10. CASE Wrap(j) BY <2>10 DEF Wrap
  <2>11. CASE Close(j)
    <3>1. state[j] = "running" /\ Through(j) = Images
      BY <2>11 DEF Close, IInv, Sound, Row, At
    <3>2. Life!Close(j) BY <2>11, <3>1, <1>2 DEF Close, Life!Close
    <3> QED BY <3>2 DEF Life!Next
  <2>12. CASE Leave(j) BY <2>12 DEF Leave
  <2> QED BY <1>3, <2>1, <2>2, <2>3, <2>4, <2>5, <2>6, <2>7, <2>8, <2>9, <2>10, <2>11, <2>12
          DEF Worker
<1>4. ASSUME NEW j \in Jobs, Start(j) \/ StartAndWait(j) PROVE [Life!Next]_Life!vars
  <2>1. Life!Submit(j) BY <1>4, <1>2 DEF Start, StartAndWait, Life!Submit
  <2> QED BY <2>1 DEF Life!Next
<1>5. ASSUME NEW j \in Jobs, Cancel(j) \/ Dies(j) \/ ToolLooks(j) \/ ToolGivesUp(j)
      PROVE  UNCHANGED row
  BY <1>5 DEF Cancel, Dies, ToolLooks, ToolGivesUp
<1>6. ASSUME StopTurn \/ NextTurn \/ Crash \/ UNCHANGED vars PROVE UNCHANGED row
  BY <1>6 DEF StopTurn, NextTurn, Crash, vars
<1> QED BY <1>1, <1>3, <1>4, <1>5, <1>6 DEF Next

\* Whoever polls a row sees the life of a batch, for any batches and images.
THEOREM StudioJobImplementsJobLife == Spec => ImplementsJobLife
  BY IInvInit, IInvStep, LifeInit, LifeStep, PTL DEF Spec, ImplementsJobLife, Life!Spec
=============================================================================
