\* The dashboard against a daemon that changes, calls that fail, a stream that is cut.
SPECIFICATION Spec
CONSTANTS
  Tasks <- MCTasks
  Posts <- MCPosts
  Attempts = 2
  MaxEvents = 4
INVARIANT
  TypeOK
PROPERTY
  RecapTrue
  Follows
