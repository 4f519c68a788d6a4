SPECIFICATION Spec
CONSTANTS
    Tab = {t1, t2}
    User = {"admin", "pmk"}
    Year = {2025, 2026}
    ThisYear = 2026
    RoleOf <- MCRoleOf
    Visited = {}
    MaxCalls = 2
    MaxAbandoned = 1
    None = None
INVARIANT TypeOK
INVARIANT RoleOfToken
INVARIANT MenuLeadsThere
INVARIANT ProxySettles
INVARIANT LogoutHolds
PROPERTY TabsRecover
