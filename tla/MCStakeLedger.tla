--------------------------- MODULE MCStakeLedger ---------------------------
(***************************************************************************)
(* Small instances of StakeLedger for TLC.                                 *)
(***************************************************************************)
EXTENDS StakeLedger, TLC

CONSTANTS
    OperatorTokens,  \* tokens of an operator at genesis
    DelegatorTokens, \* tokens of any other account at genesis
    PlanAmounts,     \* amounts of a funding source
    PlanWidth        \* most sources of a plan

MCWallet ==
    [a \in Accounts |-> IF a \in Operators THEN OperatorTokens ELSE DelegatorTokens]

\* Operators are interchangeable, and so are the accounts that only delegate.
MCSymmetry == Permutations(Operators) \cup Permutations(Accounts \ Operators)

\* Every plan of at most PlanWidth sources over PlanAmounts.
MCPlans ==
    LET PA == PlanAmounts \cup {0} IN
    {p \in [balance : PA, delegation : [Operators -> PA], stake : PA,
            vaults : [0 .. MaxVaults - 1 -> PA]] :
       PlanSources(p) \in 1 .. PlanWidth}

\* A single source of each kind, and a stake eked out by the balance.
FewPlans ==
    {p \in MCPlans : PlanSources(p) = 1 \/ (p.balance > 0 /\ \E g \in Operators : p.delegation[g] > 0)}

\* No funding plan.
NoPlans == {}

\* The outcomes of a batch: a reward that goes to the delegates and divides,
\* one that is shared, is cut by what the treasury holds and leaves a rest,
\* and a failure.
MCOutcomes ==
    {Idle,
     [reward |-> 2, share |-> 2, at_tally |-> TRUE, eligible |-> TRUE, failed |-> FALSE],
     [reward |-> 3, share |-> 1, at_tally |-> TRUE, eligible |-> TRUE, failed |-> FALSE],
     [reward |-> 0, share |-> 1, at_tally |-> TRUE, eligible |-> TRUE, failed |-> TRUE]}

\* Shared rewards only.
MCShared == {o \in MCOutcomes : o = Idle \/ (o.share < ShareScale /\ ~o.failed)}
=============================================================================
