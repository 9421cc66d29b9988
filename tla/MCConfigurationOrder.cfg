SPECIFICATION ConfigurationSpec
CONSTANTS
  Documents <- MCServers
  Rules <- MCRules
  TypedWords <- MCTypedWords
  Unlimited = 1000
  Targets <- MCTargets
  PrivilegedPorts <- MCPrivilegedPorts
  ProcessUser <- MCProcessUser
  Groups <- MCGroups
  AddressOf <- MCAddressOf
  LowerCase <- MCLowerCase
INVARIANTS
  BestServerFirst
CHECK_DEADLOCK FALSE
