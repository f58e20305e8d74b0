\* The code's sizes, with strings long from 3 bytes on, a turn of 64 bytes
\* for the counts, and buffers that grow by 8.
CONSTANTS
  LongFrom = 3
  CharSigned = TRUE
  Slack = 8
  Modulus = 64
  Windows = {4, 12}
  FirstWindow = 12
  ReadSizes = {1, 3}
  MaxUnreported = 200
SPECIFICATION Spec
INVARIANTS AmfArrives VideoArrives SilentForATurnAtMost
PROPERTIES ReportsInTime
\* An input that was chosen is the end.
CHECK_DEADLOCK FALSE
