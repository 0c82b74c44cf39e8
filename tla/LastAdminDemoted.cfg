SPECIFICATION RolesSpec
CONSTANTS
    Users = {"ann", "bob"}
    UserRoleNames = {"admin", "operator", "analyst"}
    MaxCommands = 3
INVARIANT LastAdminStays
CHECK_DEADLOCK FALSE
