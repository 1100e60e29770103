--------------------------- MODULE HoldoutPartitions ---------------------------
(***************************************************************************)
(* Who is trained on and who is tested on: the frozen human holdout        *)
(* (training/holdout_resolution.py, holdout_contract.py), the temporal     *)
(* split without one (data/datasets.py) and what is left for training      *)
(* (training/partitions.py).                                               *)
(*                                                                         *)
(* A row is a reviewed minute [group, minute, state].  A group is a clip,  *)
(* numbered by the instant of its last row; no group is ever divided.      *)
(***************************************************************************)
EXTENDS Integers, Sequences, FiniteSets, SequencesExt, FiniteSetsExt

CONSTANTS
    States,            \* MODEL_STATE_LABELS, in their order
    TestPercent,       \* test_size
    ValidationPercent, \* validation_size
    Shuffled(_)        \* random.Random(random_state).shuffle of a sequence

GroupsOf(rows) == {r.group : r \in rows}
InGroups(rows, groups) == {r \in rows : r.group \in groups}
Supporting(rows, state) == {r.group : r \in {x \in rows : x.state = state}}
SupportsAll(rows) == \A s \in ToSet(States) : Supporting(rows, s) # {}

\* The key has a continuity_id too, which prepare_records derives again from the
\* rows reviewed so far: a minute whose segment changes with a later review counts
\* as another row.  Here segments stay as they are.
Key(row) == <<row.group, row.minute>>
Keys(rows) == {Key(r) : r \in rows}

\* The rows of old that new does not replace, and new (concat, keep = last).
Replaced(old, new) == new \cup {r \in old : Key(r) \notin Keys(new)}

NewestFirst(groups) == SetToSortSeq(groups, >)

\* max(1, int(round(n * percent))): a half is rounded to the even number.
Portion(n, percent) ==
    LET whole   == (n * percent) \div 100
        rest    == (n * percent) % 100
        rounded == IF rest > 50 \/ (rest = 50 /\ whole % 2 = 1) THEN whole + 1 ELSE whole
    IN  IF rounded < 1 THEN 1 ELSE rounded
Lesser(a, b) == IF a < b THEN a ELSE b

-----------------------------------------------------------------------------
(* The first snapshot.                                                      *)

\* _ensure_creation_support.
EnoughSupport(rows) == \A s \in ToSet(States) : Cardinality(Supporting(rows, s)) >= 3

Refused == [ok |-> FALSE, groups |-> {}]

\* Mutant: the validation may take the last group of a state.
CanReserveLast(candidates, selected, rows, group, left) ==
    LET remaining == ToSet(candidates) \ (selected \cup {group}) IN
    \A s \in ToSet(States) : Cardinality(Supporting(rows, s) \cap remaining) >= 2 * (left - 1)
\* can_reserve: what is left can still support every state.
CanReserve(candidates, selected, rows, group, left) ==
    LET remaining == ToSet(candidates) \ (selected \cup {group}) IN
    \A s \in ToSet(States) : Cardinality(Supporting(rows, s) \cap remaining) >= left

\* _select_groups: one group for each state, in order, and then up to desired.
SelectGroups(candidates, rows, desired, left) ==
    LET takes(selected, g) ==
            g \notin selected /\ CanReserve(candidates, selected, rows, g, left)
        reserve(chosen, s) ==
            LET able == SelectSeq(candidates, LAMBDA g :
                            g \in Supporting(rows, s) /\ takes(chosen.groups, g))
            IN  IF ~chosen.ok \/ chosen.groups \cap Supporting(rows, s) # {} THEN chosen
                ELSE IF able = <<>> THEN Refused
                ELSE [chosen EXCEPT !.groups = @ \cup {Head(able)}]
        fill(groups, g) ==
            IF Cardinality(groups) < desired /\ takes(groups, g)
            THEN groups \cup {g} ELSE groups
        reserved == FoldLeft(reserve, [ok |-> TRUE, groups |-> {}], States)
    IN  IF reserved.ok
        THEN [ok |-> TRUE, groups |-> FoldLeft(fill, reserved.groups, candidates)]
        ELSE Refused

\* validate_partition_contract.
ValidPartitions(p) ==
    /\ GroupsOf(p.validation) \cap GroupsOf(p.test) = {}
    /\ SupportsAll(p.validation) /\ SupportsAll(p.test)

NoPartitions == [validation |-> {}, test |-> {}]

\* _initial_partitions; NoPartitions where the code raises.
InitialPartitions(rows) ==
    LET order      == NewestFirst(GroupsOf(rows))
        test       == SelectGroups(order, rows, Portion(Len(order), TestPercent), 2)
        others     == Shuffled(SelectSeq(order, LAMBDA g : g \notin test.groups))
        validation == SelectGroups(others, rows, Portion(Len(order), ValidationPercent), 1)
    IN  IF EnoughSupport(rows) /\ test.ok /\ validation.ok
        THEN [validation |-> InGroups(rows, validation.groups),
              test       |-> InGroups(rows, test.groups)]
        ELSE NoPartitions

-----------------------------------------------------------------------------
(* The snapshots after it.                                                  *)

Frozen(p) == p.validation \cup p.test
Reserved(p) == GroupsOf(Frozen(p))          \* reserved_groups

\* _snapshot_conflicts: reviewed rows that say something else of a frozen one.
Conflicts(p, rows) == {r \in rows : Key(r) \in Keys(Frozen(p)) /\ r \notin Frozen(p)}

\* _append_new_groups.
Appended(p, new) ==
    LET order  == NewestFirst(GroupsOf(new))
        tests  == Lesser(Len(order) - 2, Portion(Len(order), TestPercent))
        others == Shuffled(SubSeq(order, tests + 1, Len(order)))
        validations == Lesser(Len(others) - 1, Portion(Len(order), ValidationPercent))
    IN  [validation |-> p.validation \cup InGroups(new, ToSet(SubSeq(others, 1, validations))),
         test       |-> p.test \cup InGroups(new, ToSet(SubSeq(order, 1, tests)))]

\* Mutant: every group outside the holdout counts as new.
UpdatedWithOld(p, rows, seen) ==
    LET new == {r \in rows : r.group \notin Reserved(p)}
        refreshed == [validation |-> Replaced(p.validation, InGroups(rows, GroupsOf(p.validation))),
                      test       |-> Replaced(p.test, InGroups(rows, GroupsOf(p.test)))]
    IN  IF Cardinality(GroupsOf(new)) >= 3 THEN Appended(refreshed, new) ELSE refreshed
\* _updated_partitions: the reserved groups take what is reviewed now, and a share
\* of at least three groups that no generation has seen joins them.
UpdatedPartitions(p, rows, seen) ==
    LET new == {r \in rows : r.group \notin seen}
        refreshed == [validation |-> Replaced(p.validation, InGroups(rows, GroupsOf(p.validation))),
                      test       |-> Replaced(p.test, InGroups(rows, GroupsOf(p.test)))]
    IN  IF Cardinality(GroupsOf(new)) >= 3 THEN Appended(refreshed, new) ELSE refreshed

-----------------------------------------------------------------------------
(* build_training_partitions.                                               *)

\* grouped_temporal_train_validation_test_split: the newest groups are the test, and
\* the others are divided between validation and training in a way that depends on
\* the labels and the seed.
TemporalSplits(rows) ==
    LET order  == NewestFirst(GroupsOf(rows))
        wanted == (Len(order) * TestPercent + 99) \div 100
        tests  == Lesser(Len(order) - 2, IF wanted < 1 THEN 1 ELSE wanted)
        others == ToSet(SubSeq(order, tests + 1, Len(order)))
    IN  IF Len(order) < 3 THEN {}
        ELSE {[validation |-> InGroups(rows, v),
               test       |-> InGroups(rows, ToSet(SubSeq(order, 1, tests)))] :
                 v \in (SUBSET others) \ {{}, others}}

\* What a partition leaves for training, of reviewed rows as of proxies.
TrainingRows(p, rows) == InGroups(rows, GroupsOf(rows) \ Reserved(p))

-----------------------------------------------------------------------------
\* The partitions and training have every stable state, and no group is in two of
\* them.
IsFair(p, rows) ==
    /\ ValidPartitions(p)
    /\ SupportsAll(TrainingRows(p, rows))
    /\ GroupsOf(TrainingRows(p, rows)) \cap Reserved(p) = {}

\* No clip has two states without those between them: traffic that goes from Free
\* to Congested has Dense minutes on its way.
Gradual(rows) ==
    \A g \in GroupsOf(rows), i, j, k \in DOMAIN States :
        i < j /\ j < k /\ g \in Supporting(rows, States[i]) \cap Supporting(rows, States[k])
            => g \in Supporting(rows, States[j])

\* What greed may cost (_select_groups takes the newest clip that can be spared, and
\* never takes one back).  A first snapshot is fair to every state; it is refused
\* without three clips of each, and with them never while traffic is gradual.
SelectionIsFair(rows) ==
    LET p == InitialPartitions(rows) IN
    /\ p # NoPartitions => EnoughSupport(rows) /\ IsFair(p, rows)
    /\ EnoughSupport(rows) /\ Gradual(rows) => p # NoPartitions

\* ADR-0018:23-24: "crea el snapshot si existen al menos tres grupos independientes
\* por estado estable".  The code does not promise as much: clips that are Free and
\* Congested, and never Dense, may be refused although they could be divided fairly.
ThreeClipsSuffice(rows) == EnoughSupport(rows) => InitialPartitions(rows) # NoPartitions

Divisible(rows) ==
    \E validation, test \in SUBSET GroupsOf(rows) :
        IsFair([validation |-> InGroups(rows, validation), test |-> InGroups(rows, test)], rows)
=============================================================================
