SPECIFICATION Spec
CONSTANTS
  Specs <- MCSpecs
  ProfileCaps = {}
  PathRefs <- MCPathRefs
  Externals = {"tool", "cat"}
  Configured <- MCConfigured
  RCFiles <- MCRCFiles
  RCContent <- MCRCContent
  Tree <- MCTree
  Flags = {"-x"}
  Commands <- MCCommands
  Replies <- MCReplies
  PlainResults <- MCPlainResults
  MaxAliasDepth = 4
  MaxDispatchDepth = 2
  MaxOutput = 2
INVARIANTS LookupMatchesRun AuditFaithful ProfileHolds FindRunsAll
PROPERTIES AliasIsSubstitution Terminates
CHECK_DEADLOCK FALSE
