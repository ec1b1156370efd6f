SPECIFICATION Spec
CONSTANTS
  Names = {"ana", "eva", "leo"}
  AllOps = {"read", "whoami", "logout", "login", "create", "rename", "role", "enable", "password", "delete", "bootstrap"}
  Picks = {"serial_local", "udp_jardin"}
  Remotes = {"off", "local_only"}
INVARIANTS SettingsAreFollowed SettingsSurvive
PROPERTIES AccountsStay EndedIsRefused CatalogIsTrue
CHECK_DEADLOCK FALSE
