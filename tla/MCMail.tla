------------------------------- MODULE MCMail -------------------------------
(* What the process does on its own to tell people: the worker of the mail *)
(* queue and the daily checks that notify.  The parts share no state: a    *)
(* behaviour runs one of them.                                             *)
EXTENDS EmailQueue, Alerts, TLC

VARIABLE part

MCProblem == {<<"low", 1>>, <<"low", 2>>, <<"over", 1>>}
MCCheckOf(p) == p[1]

vars == <<part, mailVars, alertVars>>

Init ==
  /\ part \in {"queue", "checks"}
  /\ MailInit /\ AlertInit
  /\ part = "queue" => holders = {} /\ language = "es" /\ mailTo

Queue == part = "queue" /\ UNCHANGED <<part, alertVars>>
Checks == part = "checks" /\ UNCHANGED <<part, mailVars>>

Next == (Queue /\ MailNext) \/ (Checks /\ AlertNext)

\* MailFairness and AlertFairness, for the part that runs.
Fairness ==
  /\ WF_vars(Queue /\ \E c \in Cycle : Tick(c))
  /\ \A e \in Email : /\ WF_vars(Queue /\ BackoffEnds(e))
                      /\ WF_vars(Queue /\ (AdminRetry(e) \/ AdminCancel(e)))
  /\ \A c \in Cycle :
       /\ WF_vars(Queue /\ EndCycle(c))
       /\ \A e \in Email : /\ WF_vars(Queue /\ StartRow(c, e))
                           /\ WF_vars(Queue /\ Send(c, e))
                           /\ WF_vars(Queue /\ Write(c, e))
  /\ WF_vars(Checks /\ CheckStep)

Spec == Init /\ [][Next]_vars /\ Fairness
=============================================================================
