SPECIFICATION SpecComposeDB
CONSTANTS
    m1 = m1
    m2 = m2
    iface = iface
    alice = alice
    bob = bob
    Models = {m1, m2}
    Interfaces = {iface}
    ImplementsOf <- MCImplementsOf
    Streams = {1, 2, 3}
    ModelOf <- MCModelOf
    Accounts = {alice}
    Workloads <- MCWorkloads
    AllowQueriesBeforeHistoricalSync = FALSE
    MaxCrashes = 2
    Base = Base
    Wide = Wide
    Item = Item
    Other = Other
    ctx = ctx
    NoUnique = NoUnique
    DocAccounts = {alice}
    Contexts = {ctx}
    Catalogs <- MCCatalogs
    Databases <- MCDatabases
    TableModels <- MCTableModels
    Networks = {"local", "other"}
    MaxStarts = 2
CHECK_DEADLOCK FALSE
INVARIANTS
    StartsAgain
    PagesLoseNothing
    DocumentsConform
    TablesCanBeUsed
    ServedTablesAreComplete
PROPERTY
    ImmutableFieldsStay
