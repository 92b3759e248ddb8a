SPECIFICATION MCSpec
CONSTANTS
  Actions = {"list", "edit", "create", "insert", "update", "delete", "view", "action", "get", "etag_value", "menu", "attached", "save", "update_row", "insert_row", "delete_row"}
  NoAction = NoAction
  Nothing = Nothing
  MaxChanges = 2
  UpdateRow = "update_row"
  InsertRow = "insert_row"
  DeleteRow = "delete_row"
  MaxRows = 2
  Attached = "attached"
CONSTRAINTS
  OneRowChanges
  PagesOfTheForm
  ChangesApart
INVARIANTS
  PagesTypeOK
  ServedIsCurrent
  BrokenOnlyByChange
  StaleDatumIsAnnounced
  NoTransactionLeft
PROPERTIES
  LeaksOnlyReinserted
  SaveIsAtomic
  PagesEnd
