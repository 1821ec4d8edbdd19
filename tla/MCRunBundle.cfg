SPECIFICATION Spec
CONSTANTS
  Unset = Unset
  Unparsable = Unparsable
  Naive = Naive
  Null = Null
  Malformed = Malformed
  NoValue = Unset
  Invalid = Malformed
  Absent = Absent
  Empty = Empty
  Garbled = Garbled
  Fetchers = {o1, o2}
  Addresses = {"public", "private"}
  UnsafeAddresses = {"private"}
  Resolutions <- MCResolutions
  MediaTypes = {"text", "html"}
  Unencodable = {"/accented", "overlong"}
  ProxyPort <- MCProxyPort
  CallIds = {1, 2}
  NetScopes <- MCNetScopes
  NetIntents <- MCNetIntents
  ScopeRecords <- MCScopeRecords
  ProposalRecords <- MCProposalRecords
  Bundles <- MCBundles
  DefaultMaxBytes = 1
  Now = 0
  MaxCommands = 2
  MaxAccidents = 1
INVARIANTS TypeOK RequestsApproved ConnectsToChecked StoredWithinScope EvidenceIsTrue
PROPERTIES RequestsReported DecisionFollowed
SYMMETRY Interchangeable
CHECK_DEADLOCK FALSE
