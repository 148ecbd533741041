------------------------------ MODULE MCStageRun ------------------------------
EXTENDS StageRun

Quant     == [root |-> FALSE, materializes |-> TRUE, candidate |-> FALSE,
              imported |-> FALSE]
Plain     == [root |-> FALSE, materializes |-> FALSE, candidate |-> FALSE,
              imported |-> FALSE]
Root      == [root |-> TRUE, materializes |-> FALSE, candidate |-> FALSE,
              imported |-> TRUE]
Candidate == [root |-> TRUE, materializes |-> FALSE, candidate |-> TRUE,
              imported |-> FALSE]
AllJobs   == {Quant, Plain, Root, Candidate}
PlainJob  == {Plain}

Alone(k)  == [crowd |-> "alone", ordered |-> TRUE, kills |-> k]
Spaced(k) == [crowd |-> "spaced", ordered |-> TRUE, kills |-> k]
Crowd     == [crowd |-> "any", ordered |-> TRUE, kills |-> 0]
Named     == [crowd |-> "alone", ordered |-> FALSE, kills |-> 0]
Usual     == {Alone(1), Alone(2), Spaced(0), Spaced(1), Crowd, Named}
Crowded   == {Crowd}

(* Each way of using the root with the jobs it is worth asking for: several *)
(* drivers, of which one is killed or which come at any moment, and two     *)
(* kills of one driver, on the shortest plan, since the lock is the same in *)
(* every job.                                                               *)
StagesInit ==
  /\ Init
  /\ job = Plain <=> regime \in {Crowd, Spaced(1), Alone(2)}
  /\ regime = Spaced(0) => job \in {Root, Candidate}

StagesSpec == StagesInit /\ [][Next]_vars /\ Fairness
=============================================================================
