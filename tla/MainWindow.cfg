SPECIFICATION FairSpec
CONSTANTS
  Passwords <- TwoPasswords
  DefaultPassword = "admin"
  NoFile = NoFile
  TornFile = TornFile
INVARIANTS
  TypeOK
  PasswordKept
  LabelsOfThisRunner
PROPERTIES
  StatusFollows
  DiagnosticsFollows
