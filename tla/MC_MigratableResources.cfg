CONSTANTS
  GroupVersions <- MCGroupVersions
  Builtin = {"apps", "extensions"}
  Custom = {"example.com"}
  Aggregated = {"metrics"}
  Names <- MCNames
  Subresources <- MCSubresources
  ResourceLists <- MCResourceLists
SPECIFICATION Spec
INVARIANTS TypeOK FindsMigratable
