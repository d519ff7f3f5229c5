SPECIFICATION CfgSpec
CONSTANTS
  Modes = {"off", "heat"}
  OffMode = "off"
  Settings = {"factory", "own"}
  FactorySettings = "factory"
  Credentials = {"home", "shop"}
  Absent = Absent
PROPERTIES CredentialsPreserved
