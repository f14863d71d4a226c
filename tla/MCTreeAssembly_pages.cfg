CONSTANTS
  Paths <- MCPaths
  Root = "Person"
  Parent <- MCParent
  Lists <- MCLists
  Keys <- MCKeys
  Hash <- MCHash
  Databases <- MCDatabases
  Queries <- MCQueries
SPECIFICATION TreeSpec
INVARIANTS HeldAsRead PageOfRoots PageCutsNoChildren
\* A request ends.
CHECK_DEADLOCK FALSE
