CONSTANTS
  c1 = c1
  c2 = c2
  Callers <- MCCallers
  Documents <- MCDocuments
  NoFile = NoFile
  Rules <- MCRules
  Added <- MCAdded
  Actions = {"Allow", "Block"}
  Content <- MCContent
  Parse <- MCParse
  Compile <- MCCompile
  MaxRules = 3
  Free = Free
  Width <- MCWidth
  ByteBits = 3
  MaxPort = 7
  Endpoints <- MCEndpoints
  Hosts <- MCHosts

SPECIFICATION Spec

INVARIANTS
  TypeOK
  PublishedPolicyCurrent
  LoadedRulesMeanTheirText

PROPERTIES
  ImplementsPolicyStore
