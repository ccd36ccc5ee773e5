SPECIFICATION Spec
CONSTANTS
  Columns <- MCColumns
  JsonColumns <- MCJson
  ForeignKeys <- MCForeignKeys
  PrimaryKeys <- MCPrimaryKeys
  Templates <- MCTemplates
  TableListings <- MCTableListings
  Constraints <- MCConstraints
  Contents <- MCContents
  Insertions <- MCInsertions
  Queries <- MCQueries
  SavedQueries <- MCSavedQueries
  Listings <- MCListings
  Saved = {1}
  Limit = 2
  MaxDepth = 2
  MaxChanges = 1
INVARIANTS PagesCoverTheResult GroupsCoverThePage JoinsKeepBaseRows AliasesAreTraced OneRowPerBaseValue DescribedColumnsAreExplained PreviewsShowReferredRows
CHECK_DEADLOCK FALSE
