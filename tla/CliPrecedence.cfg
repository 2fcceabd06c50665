CONSTANTS
  Options = {n1, n2}
  Manual = {n1}
  Given = {good, other, Bad}
  Bad = Bad
  Built = Built
  None = None
  Unknown = Unknown
  MaxLines = 1
SPECIFICATION CliSpec
INVARIANTS
  DocumentedPrecedence
