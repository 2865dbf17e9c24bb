\* An account, a vault that is attached to one of two folders, and a site of
\* two files: any commands in any order, that fail or are stopped anywhere.
\* The keyring becomes available at some time; sessions expire; the user edits
\* and another device publishes between publish runs.
SPECIFICATION Spec
CONSTANTS
  Names = {"auth_token", "encryption_key", "encryption_salt"}
  MaxSecret = 3
  Troubles = {}
  Files = {"f1", "f2"}
  Contents = {"private", "public", "plain"}
  Public = {"public"}
  Private = {"private"}
  Unprobed = {}
  Absent = "absent"
  Included = {"f1"}
  Excluded = {}
  Folders = {"a", "b"}
  Uses = {"sync", "publish"}
INVARIANTS
  SecretsInv
  PrivateUnpublished
PROPERTIES
  UnlinkForgets
  SyncsFromOwnPast
  PublishedAsWanted
CHECK_DEADLOCK FALSE
