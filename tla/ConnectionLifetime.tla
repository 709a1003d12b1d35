------------------------- MODULE ConnectionLifetime -------------------------
(***************************************************************************)
(* What the accept loop of windows/main_win.c promises about the memory of *)
(* a client connection, with no table, no slots and no scan: a             *)
(* struct fxmy_connection_t is created when a client is accepted, is       *)
(* served by one worker, is entered once in the set of known connections,  *)
(* and is given back to the heap only when it is known and its worker has  *)
(* finished.  ConnectionTable implements this specification.               *)
(***************************************************************************)
CONSTANT Conns          \* the connection structures the heap can hand out

VARIABLES
  up,                   \* FALSE once the process has stopped
  phase,                \* what each structure is being used for
  known                 \* the connections the accept loop keeps track of

vars == <<up, phase, known>>

TypeOK ==
  /\ up \in BOOLEAN
  /\ phase \in [Conns -> {"absent", "serving", "finished"}]
  /\ known \in SUBSET Conns

Init ==
  /\ up = TRUE
  /\ phase = [c \in Conns |-> "absent"]
  /\ known = {}

Admit(c) ==
  /\ phase[c] = "absent"
  /\ phase' = [phase EXCEPT ![c] = "serving"]
  /\ UNCHANGED <<up, known>>

Register(c) ==
  /\ phase[c] # "absent"
  /\ c \notin known
  /\ known' = known \cup {c}
  /\ UNCHANGED <<up, phase>>

Finish(c) ==
  /\ phase[c] = "serving"
  /\ phase' = [phase EXCEPT ![c] = "finished"]
  /\ UNCHANGED <<up, known>>

Release(c) ==
  /\ phase[c] = "finished"
  /\ c \in known
  /\ phase' = [phase EXCEPT ![c] = "absent"]
  /\ known' = known \ {c}
  /\ UNCHANGED up

\* A failed VERIFY, an abort() or an access violation takes the whole
\* process down, whatever the connections are doing.
Stop == up' = FALSE /\ UNCHANGED <<phase, known>>

Next ==
  /\ up
  /\ \/ \E c \in Conns : Admit(c) \/ Register(c) \/ Finish(c) \/ Release(c)
     \/ Stop

Spec == Init /\ [][Next]_vars
=============================================================================
