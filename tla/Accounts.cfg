SPECIFICATION Spec
CONSTANTS
    Workers = {w1, w2}
    AccountIds = {"a", "b", "c", "j", "v"}
    Views = {"v"}
    Journals = {"j"}
    UserIds = {"root", "u", "x"}
    Admin = "root"
    RoleIds = {"admin role", "manager", "staff", "custom", "new"}
    Builtin <- MCBuiltin
    AdminRole = "admin role"
    ManagerRole = "manager"
    Names = {"n", "u"}
    Loads <- MCLoads
    UserEdits <- MCUserEdits
    None = None
SYMMETRY Symmetry
INVARIANTS
    AdminStands
    ReferencesResolve
    WritesKept
    DeletionEnds
CHECK_DEADLOCK FALSE
