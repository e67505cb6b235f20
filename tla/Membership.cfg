\* A founder and a guest; two requests at once, two invitations, one failure.
SPECIFICATION Spec
CONSTANTS
    User = {"founder", "guest"}
    Founder = "founder"
    Request = {r1, r2}
    Invitation = {i1, i2}
    Invitee <- ToGuest
    Offered = {"admin"}
    Leavers = {"founder"}
    MaxFailures = 1
INVARIANTS
    TypeOK
    NeverOwnerless
    OneOwner
    AdmitsOnce
    PurgeLeavesNothing
CONSTRAINT Sighted
SYMMETRY Symmetry
\* A purged timeline has no requests left to answer.
CHECK_DEADLOCK FALSE
