CONSTANTS
    r1 = r1  r2 = r2  r3 = r3
    a = a  b = b  f = f
    Request = {r1, r2, r3}
    Text = {a, b}
    Address = {a, b}
    Query <- MCQuery
    MaxSize = 2
    Resources = {1}
    MetaForms = {"V3", "V4"}
    MaxOperatorSeq = 0
    MayPanic = FALSE
    Funder = f
    Amount = 1
    Limits = {0, 2}
    Funds = 1
    MaxFunds = 2
SPECIFICATION FundedSpec
SYMMETRY RequestSymmetry
INVARIANTS
    BalancesMatchAnswers
    FirstComeFirstPaid
