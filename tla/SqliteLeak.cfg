CONSTANTS
  Databases = {d, e}
  Statements = {s}
  Local = Local
  Connections = {c1, c2}
  Handles = {h1, h2}
  Values = {v1}
  Absent = Absent
  Null = Null
SPECIFICATION SqliteSpec
INVARIANTS
  ConnectionsHaveOwners
