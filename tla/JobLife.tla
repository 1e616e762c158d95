------------------------------ MODULE JobLife ------------------------------
(***************************************************************************)
(* The life of a batch as its row tells it to everyone who polls it        *)
(* (studiojob.py, first lines): it waits, it runs, it counts its images    *)
(* and it ends once. A batch with a bad image carries on, a cancelled one  *)
(* ends without the rest of its images.                                    *)
(***************************************************************************)
EXTENDS Naturals

CONSTANTS Jobs, Images

VARIABLES
    life,   \* per job, its state
    count   \* per job, the images it is through with

vars == <<life, count>>

Init == life = [j \in Jobs |-> "none"] /\ count = [j \in Jobs |-> 0]

Becomes(j, s) == life' = [life EXCEPT ![j] = s] /\ UNCHANGED count

Submit(j)   == life[j] = "none" /\ Becomes(j, "pending")
Take(j)     == life[j] = "pending" /\ Becomes(j, "running")
Withdraw(j) == life[j] = "pending" /\ Becomes(j, "cancelled")
Image(j)    == /\ life[j] = "running" /\ count[j] < Images
               /\ count' = [count EXCEPT ![j] = @ + 1]
               /\ UNCHANGED life
Cut(j)      == life[j] = "running" /\ count[j] < Images /\ Becomes(j, "cancelled")
Close(j)    == /\ life[j] = "running" /\ count[j] = Images
               /\ \E s \in {"done", "partial"} : Becomes(j, s)

Next == \E j \in Jobs :
    Submit(j) \/ Take(j) \/ Withdraw(j) \/ Image(j) \/ Cut(j) \/ Close(j)

Spec == Init /\ [][Next]_vars
=============================================================================
