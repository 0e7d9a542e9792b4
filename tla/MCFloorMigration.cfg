CONSTANTS
    orders = orders
    users = users
    row = row
    edit = edit
    save = save
    icon = icon
    kEdit = kEdit
    kRow = kRow
    kIcon = kIcon
    Screens = {orders, users}
    Spots = {row, edit, save, icon}
    Keys = {kEdit, kRow, kIcon}
    ScreenOf <- ScreenOfDef
    LegacyKey <- LegacyKeyDef
    RowKey <- RowKeyDef
    Counted = {kIcon}
    ConfidenceOf <- ConfidenceDef
    Walked = {kEdit}
    Signalled = {}
    Worlds <- WorldsDef
SPECIFICATION Spec
CHECK_DEADLOCK FALSE
INVARIANTS
    AcceptedNeverBlocks
