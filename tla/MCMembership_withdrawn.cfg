SPECIFICATION MembershipSpec
CONSTANTS
    Members = {u1}
    Faults = FALSE
    u1 = u1
INVARIANT NothingToCancel
