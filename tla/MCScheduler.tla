----------------------------- MODULE MCScheduler -----------------------------
(***************************************************************************)
(* The ready queue in two representations, chosen at the start: the lists  *)
(* with four tasks and three priorities, and the bitmap with all sixteen.  *)
(***************************************************************************)
EXTENDS Scheduler, PriorityBitmap
CONSTANTS t1, t2, t3, t4
VARIABLE part

\* One task starts at the lowest priority, the others at the highest.
MCipriority == [t \in Task |-> IF t = t1 THEN MaxPri ELSE 0]

MCInit == Init /\ BitmapInit /\ part \in {"lists", "word"}

MCNext == /\ part' = part
          /\ \/ part = "lists" /\ Next /\ UNCHANGED bvars
             \/ part = "word" /\ BitmapNext /\ UNCHANGED svars

MCSpec == MCInit /\ [][MCNext]_<< svars, bvars, part >>
=============================================================================
