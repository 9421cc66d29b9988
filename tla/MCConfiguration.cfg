SPECIFICATION ConfigurationSpec
CONSTANTS
  Documents <- MCDocuments
  Rules <- MCRules
  TypedWords <- MCTypedWords
  Unlimited = 1000
  Targets <- MCTargets
  PrivilegedPorts <- MCPrivilegedPorts
  ProcessUser <- MCProcessUser
  Groups <- MCGroups
  AddressOf <- MCAddressOf
  LowerCase <- MCLowerCase
INVARIANTS
  ConfigurationInv
  SyntaxChecked
  ParsedAsWritten
  SchemaEnforced
  InnermostFirst
  NoneSkipped
CHECK_DEADLOCK FALSE
