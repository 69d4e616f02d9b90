-------------------------- MODULE MCTaskException --------------------------
(***************************************************************************)
(* A system task and a less urgent user task, and interrupts (the idle     *)
(* loop counts as one).  One of two instances is chosen at the start:      *)
(*   calls     extended service calls; no routine enables exceptions       *)
(*   nesting   routines of the system task enable exceptions               *)
(* The instance of the findings is "calls".                                *)
(***************************************************************************)
EXTENDS TaskException

CONSTANTS s, u,
          Parts   \* the instances of the run
VARIABLE part

MCipriority == [t \in Task |-> IF t = s THEN 0 ELSE 1]
Nothing == [o \in {} |-> 0]

\* What follows a wrong decision is of no interest.
NotMisread == ~misread

NoneEnabled == \A t \in Task : \A i \in DOMAIN tex'[t].routines : ~tex'[t].routines[i].enabled
OnlySystemTasks == \A t \in Task : /\ tex'[t].svclevel = 0
                                   /\ t \in UserTask => tex'[t].texptn = {}

MCInit == TexInit /\ part \in Parts

MCNext == /\ part' = part
          /\ TexNext
          /\ part = "calls" => NoneEnabled
          /\ part = "nesting" => OnlySystemTasks

MCSpec == MCInit /\ [][MCNext]_<< texvars, part >>
=============================================================================
