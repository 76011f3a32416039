SPECIFICATION Spec
CONSTANTS
    NULL = NULL
    Calls = {"first", "second"}
    Workloads <- MCWorkloads
    Sessions = {"known", "unknown"}
    Tenants = {"acme", "globex"}
    TenantOf <- MCTenantOf
    Capabilities <- MCCapabilities
    Version = 1
    Documents <- MCDocuments
    Values <- MCValues
    Statuses = {200, 403, 503}
    MaxAttempts = 2
    TimeoutSeconds = 30
    MaxChanges = 1
PROPERTY SideEffectsAreNotRefired
CHECK_DEADLOCK FALSE
