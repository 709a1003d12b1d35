------------------------------ MODULE RequestReply ------------------------------
(***************************************************************************)
(* What a session promises its client: requests are answered one by one,   *)
(* in the order in which they were made, each with the number behind its   *)
(* own and with an outcome that its kind can have.  COM_QUIT, which has no *)
(* answer, is not seen here.                                               *)
(***************************************************************************)
EXTENDS Integers, Sequences

CONSTANTS
  Requests,       \* records with a kind and an id
  MayFail,        \* kinds that can be answered with an error
  MustFail        \* kinds that are never answered with anything else

VARIABLES
  up,             \* whether the server runs
  waiting,        \* requests without an answer, in order
  answers         \* answers on their way to the client
vars == <<up, waiting, answers>>

Init == up = TRUE /\ waiting = <<>> /\ answers = <<>>

AnswerTo(r, failed) == [id |-> (r.id + 1) % 256, failed |-> failed]

Outcomes(r) ==
  IF r.kind \in MustFail THEN {TRUE} ELSE IF r.kind \in MayFail THEN BOOLEAN ELSE {FALSE}

Ask(r) ==
  /\ up
  /\ waiting' = Append(waiting, r)
  /\ UNCHANGED <<up, answers>>

Answer ==
  /\ up /\ waiting # <<>>
  /\ \E failed \in Outcomes(Head(waiting)) :
       answers' = Append(answers, AnswerTo(Head(waiting), failed))
  /\ waiting' = Tail(waiting)
  /\ UNCHANGED up

\* What was sent before the server stopped can still be read.
Read ==
  /\ answers # <<>>
  /\ answers' = Tail(answers)
  /\ UNCHANGED <<up, waiting>>

\* The client hangs up.
Leave == waiting' = <<>> /\ answers' = <<>> /\ UNCHANGED up

Stop == up' = FALSE /\ UNCHANGED <<waiting, answers>>

Next == (\E r \in Requests : Ask(r)) \/ Answer \/ Read \/ Leave \/ Stop

Spec == Init /\ [][Next]_vars
=============================================================================
