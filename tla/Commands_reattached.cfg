\* sync-setup attaches the vault to another folder.  Nothing goes wrong.
SPECIFICATION Spec
CONSTANTS
  Names = {"auth_token", "encryption_key", "encryption_salt"}
  MaxSecret = 1
  Troubles = {"reattached"}
  Files = {"f1"}
  Contents = {"public"}
  Public = {"public"}
  Private = {}
  Unprobed = {}
  Absent = "absent"
  Included = {"f1"}
  Excluded = {}
  Folders = {"a", "b"}
  Uses = {"sync"}
PROPERTIES
  SyncsFromOwnPast
CHECK_DEADLOCK FALSE
