CONSTANTS
    orders = orders
    menu = menu
    row = row
    edit = edit
    icon = icon
    kEdit = kEdit
    kRow = kRow
    kIcon = kIcon
    Screens = {orders, menu}
    Spots = {row, edit, icon}
    Keys = {kEdit, kRow, kIcon}
    ScreenOf <- ScreenOfDef
    LegacyKey <- LegacyKeyDef
    RowKey <- RowKeyDef
    Meets <- MeetsDef
    Signalled = {menu}
    MaxLosses = 2
    Counted = {kIcon}
    Pool <- PoolDef
    Walked = {kEdit}
    Waivers <- WaiversDef
    MaxCount = 2
    LastDay = 1
    two = two
    one = one
    none = none
    Codes <- CodesDef
    Barriers <- BarriersDef
    Trees <- TreesDef
    FirstCode = two
    NoPending = NoPending
    NoReading = NoReading
    MaxCommits = 2
    MaxScans = 3
    form = form
    banner = banner
    Ids <- IdsDef
    Asks = {form, banner}
    Repos <- ReposDef
    Apps <- AppsDef
    Routes <- RoutesDef
    DocsPages <- DocsPagesDef
    Labels <- LabelsDef
    Unlabeled = Unlabeled
    NoConfig = NoConfig
    Garbled = Garbled
    MaxTroubles = 1
SPECIFICATION MCSpec
CHECK_DEADLOCK FALSE
INVARIANTS
    LoaderFailureIsNotVerified
