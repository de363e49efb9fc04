\* Words of three bits: the positions wrap around after eight items, and
\* three items asked for make a ring of four.
SPECIFICATION Spec
CONSTANTS
  Val = {a, b}
  NoVal = NoVal
  Width = 3
  Asked = 3
  MaxBatch = 4
INVARIANTS TypeOK
PROPERTIES StreamSpec
