SPECIFICATION CursorSpec
CONSTANTS
  p1 = p1
  p2 = p2
  Proc = {p1, p2}
  Ledger = {1, 2, 3}
PROPERTY RowNeverRegresses
