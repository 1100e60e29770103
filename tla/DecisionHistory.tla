--------------------------- MODULE DecisionHistory ---------------------------
(***************************************************************************)
(* What the HITL store promises a reviewer, without runs, receipts, calls  *)
(* or failures: each prediction has one linear history of decisions that   *)
(* only grows at its end, each UUID decides once, and a decision on it is  *)
(* audited at most once and stays so.  (ADR-0030: "La cadena efectiva debe *)
(* ser un unico grafo lineal".)                                            *)
(***************************************************************************)
EXTENDS Sequences, Naturals

CONSTANTS Validations, Predictions, Decisions, Null

VARIABLES
    history,    \* prediction -> its decisions, oldest first
    audited     \* the UUIDs of the decisions whose audit is complete

Init ==
    /\ history = [p \in Predictions |-> <<>>]
    /\ audited = {}

Decided(p) == {history[p][i].id : i \in DOMAIN history[p]}
AllDecided == UNION {Decided(p) : p \in Predictions}

\* The decision in force on a prediction, which the next one must supersede.
Current(p) == IF history[p] = <<>> THEN Null ELSE history[p][Len(history[p])].id

Decide(d) ==
    /\ d.id \notin AllDecided
    /\ d.supersedes = Current(d.prediction)
    /\ history' = [history EXCEPT ![d.prediction] = Append(@, d)]
    /\ UNCHANGED audited

Audit(v) ==
    /\ v \in AllDecided \ audited
    /\ audited' = audited \cup {v}
    /\ UNCHANGED history

Next ==
    \/ \E d \in Decisions : Decide(d)
    \/ \E v \in Validations : Audit(v)

Spec == Init /\ [][Next]_<<history, audited>>
=============================================================================
