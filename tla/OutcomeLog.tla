------------------------------ MODULE OutcomeLog ------------------------------
(***************************************************************************)
(* What the outcome ledger of an optimization episode promises: a log that *)
(* only grows, in which every intervention starts once and is answered at  *)
(* most once, after its start (ledger.py, OptimizationLedger; replay in    *)
(* ledger_artifacts.py, _replay_entries).                                  *)
(***************************************************************************)
EXTENDS Naturals, Sequences

CONSTANT Interventions    \* intervention ids
VARIABLE log

Outcomes == {"improved", "other", "indeterminate"}
StartEntry(i) == [kind |-> "start", id |-> i, outcome |-> "none"]
TerminalEntry(i, o) == [kind |-> "terminal", id |-> i, outcome |-> o]
Entry == {StartEntry(i) : i \in Interventions} \union
         {TerminalEntry(i, o) : i \in Interventions, o \in Outcomes}

Started(l) == {l[k].id : k \in {n \in DOMAIN l : l[n].kind = "start"}}
Answered(l) == {l[k].id : k \in {n \in DOMAIN l : l[n].kind = "terminal"}}
Unanswered(l) == Started(l) \ Answered(l)

(* What append_start and append_terminal accept after replaying the file.   *)
Accepts(l, e) == IF e.kind = "start" THEN e.id \notin Started(l)
                                     ELSE e.id \in Unanswered(l)

(* The last candidate that was promoted; 0 is the baseline.                 *)
Promoted(l) == {n \in DOMAIN l : l[n].outcome = "improved"}
Incumbent(l) == IF Promoted(l) = {} THEN 0
                ELSE l[CHOOSE n \in Promoted(l) : \A m \in Promoted(l) : m <= n].id

Init == log = <<>>
Record(e) == Accepts(log, e) /\ log' = Append(log, e)
Next == \E e \in Entry : Record(e)
Spec == Init /\ [][Next]_log
=============================================================================
