SPECIFICATION FairSpec
CONSTANTS
  Passwords <- TwoPasswords
  DefaultPassword = "admin"
  NoFile = NoFile
  TornFile = TornFile
PROPERTIES
  OpenDiagnosticsFollows
