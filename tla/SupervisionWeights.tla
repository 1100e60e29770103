--------------------------- MODULE SupervisionWeights ---------------------------
(***************************************************************************)
(* What each row of a training weighs: a human review in full, a rule's      *)
(* label (proxy) less the more reviews its state has, a synthetic row less    *)
(* still and, all together, at most half of the Normal rows                   *)
(* (training/lifecycle.py); and what the three strategies of balance make of  *)
(* the weights before a model is fitted to them (balancing.py, selection.py). *)
(*                                                                         *)
(* A training has its mode and rows: how many human, proxy and synthetic     *)
(* ones of each state.  A weight is a multiple of 1/Unit; a proportional      *)
(* reduction rounds it down.                                                *)
(***************************************************************************)
EXTENDS Integers, FiniteSets

CONSTANTS Target,           \* reviews of each state that let its proxies go
          Unit,             \* weight of a human row
          SyntheticPercent, \* of a proxy row
          MaxClassWeight

States == 0 .. 2
Normal == 0
Congested == 2
AtLeast(a, b) == IF a > b THEN a ELSE b
AtMost(a, b) == IF a < b THEN a ELSE b
Total(count) == count[0] + count[1] + count[2]

\* proxy_memory_weight.
ProxyWeight(state, support) ==
    (Unit * AtLeast(0, Target[state] - support[state])) \div (2 * Target[state])

\* The weight of a row of each kind and state, and how many there are.
Table(human, proxy, synthetic) == [human |-> human, proxy |-> proxy, synthetic |-> synthetic]
Sums(rows, weight) ==
    [s \in States |-> rows.human[s] * weight.human[s] + rows.proxy[s] * weight.proxy[s]
                        + rows.synthetic[s] * weight.synthetic[s]]

\* Synthetic rows hold at most half of what the Normal ones weigh
\* (cap_synthetic_congested_weight and the end of build_supervision_weights).
Capped(rows, weight) ==
    LET limit == Sums(rows, weight)[Normal] \div 2
        count == rows.synthetic[Congested]
    IN  IF count * weight.synthetic[Congested] <= limit THEN weight
        ELSE [weight EXCEPT !.synthetic[Congested] = limit \div count]

\* build_supervision_weights.
Supervision(t) ==
    LET proxy == [s \in States |-> IF t.mode = "seed-bootstrap" THEN Unit
                                   ELSE ProxyWeight(s, t.rows.human)]
    IN  Capped(t.rows, Table([s \in States |-> Unit], proxy,
                             [s \in States |-> (proxy[s] * SyntheticPercent) \div 100]))

\* The notebook drops the rows that weigh nothing.
Active(rows, weight) ==
    [kind \in DOMAIN rows |->
        [s \in States |-> IF weight[kind][s] > 0 THEN rows[kind][s] ELSE 0]]

-----------------------------------------------------------------------------
(* Strategies of balance.                                                   *)

Real(rows, s) == rows.human[s] + rows.proxy[s]
OnlyReal(rows) == [rows EXCEPT !.synthetic = [s \in States |-> 0]]

\* Rows of a rarer state drawn again: up to half the Normal rows and to four times
\* its own.
Extra(rows, s) ==
    IF s = Normal \/ Real(rows, s) = 0 THEN 0
    ELSE AtLeast(0, AtMost(AtLeast(1, Real(rows, Normal) \div 2), 4 * Real(rows, s))
                      - Real(rows, s))

\* Some of the extra rows are human ones, as the draw has it.
Draws(rows) ==
    LET possible(s) == {n \in 0 .. Extra(rows, s) : /\ rows.human[s] = 0 => n = 0
                                                  /\ rows.proxy[s] = 0 => n = Extra(rows, s)}
    IN  {<<0, n, m>> : n \in possible(1), m \in possible(Congested)}
Oversampled(rows, drawn) ==
    Table([s \in States |-> rows.human[s] + drawn[s + 1]],
          [s \in States |-> rows.proxy[s] + Extra(rows, s) - drawn[s + 1]],
          [s \in States |-> 0])

\* build_balance_candidates.
Candidates(rows) ==
    {[strategy |-> "class-weights", rows |-> OnlyReal(rows)],
     [strategy |-> "synthetic-congestion", rows |-> rows]}
    \cup {[strategy |-> "moderate-oversampling", rows |-> Oversampled(rows, d)] : d \in Draws(rows)}

\* compute_capped_balanced_weights: rows over states and rows of the state.
Balanced(rows, weight) ==
    LET count == [s \in States |-> Real(rows, s) + rows.synthetic[s]]
        present == Cardinality({s \in States : count[s] > 0})
        of(s, w) == IF count[s] = 0 THEN 0
                    ELSE AtMost(w * MaxClassWeight, (w * Total(count)) \div (present * count[s]))
    IN  [kind \in DOMAIN weight |-> [s \in States |-> of(s, weight[kind][s])]]

\* select_balance_candidate: the weights each strategy is fitted with.
FitWeights(candidate, weight) ==
    LET balanced == Balanced(candidate.rows, weight)
    IN  IF candidate.strategy = "synthetic-congestion" THEN Capped(candidate.rows, balanced)
        ELSE balanced

-----------------------------------------------------------------------------
\* Whatever balance is tried, synthetic rows weigh at most half of the Normal rows
\* in the fit, no row that a rule labelled weighs more than a human one of its state,
\* and drawing again makes no state outnumber half of the Normal rows unless it
\* already did (build_supervision_weights, build_balance_candidates,
\* select_balance_candidate).
PeopleOutweighRules(t) ==
    LET supervision == Supervision(t)
        rows == Active(t.rows, supervision)
    IN  Total([s \in States |-> Real(rows, s)]) > 0 =>
          \A c \in Candidates(rows) :
            LET w == FitWeights(c, supervision) IN
            /\ 2 * c.rows.synthetic[Congested] * w.synthetic[Congested]
                 <= Sums(c.rows, w)[Normal]
            /\ \A s \in States : w.synthetic[s] <= w.proxy[s] /\ w.proxy[s] <= w.human[s]
            /\ c.strategy = "moderate-oversampling" =>
                 \A s \in States \ {Normal} :
                    \/ Real(c.rows, s) = Real(rows, s)
                    \/ Real(c.rows, s) <= AtLeast(1, Real(rows, Normal) \div 2)
=============================================================================
