CONSTANTS
    a = a
    b = b
    c = c
    old = old
    new = new
    select = select
    forupdate = forupdate
    update = update
    NoName = NoName
    BadReplace = BadReplace
    Sessions = {s1}
    Users = {a, b}
    Schemas = {b, c}
    Selects = {select}
    ForUpdates = {forupdate}
    Others = {update}
    mysql_hostgroups = 2
    default_timeout = 5
    query_cache_enabled = TRUE
    RuleTables <- Tables
    HostgroupTables <- Defaults
    UserTables <- Accounts
    FileUsers <- InFile
    admin_sync_disk_on_flush = TRUE
    admin_sync_disk_on_shutdown = TRUE
    merge_configfile_db = TRUE
    MaxEdits = 2
    MaxVersion = 2
SPECIFICATION Spec
INVARIANTS DefaultCurrent SavedWhole
PROPERTIES ReadWriteSplit RestoredAsSaved
