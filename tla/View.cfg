CONSTANTS
    v1 = v1
    v2 = v2
    Views = {v1, v2}
    Decisions <- MCDecisions
    Anchors <- MCAnchors
    Month <- MCMonth
    DomainSeq <- MCDomainSeq
    RowGated = {"auction"}
    Minutes = {"intraday_1min"}
    Frozen = {"events"}
    Refreshes <- MCRefreshes
    Groups <- MCGroups
    Lakes <- MCLakes
SPECIFICATION Spec
SYMMETRY Replays
INVARIANTS ViewIsExact StashAgrees
PROPERTY ViewGrows
CHECK_DEADLOCK FALSE
