\* The cache, its reloads and the role gate.
SPECIFICATION Spec
CONSTANTS
    Ids <- MCIds
    granted = granted  denied = denied
    Defs <- MCDefs
    NameOf <- MCNameOf
    PermissionsOf <- MCPermissionsOf
    Reqs <- MCReqs
    ReqOf <- MCReqOf
    Bad = Bad
    None = None
    MaxVersions = 1
    MaxInbox = 2
INVARIANTS AnnouncedVersionCached
PROPERTIES PermissionNotOutdated
