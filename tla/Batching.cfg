\* All batches of up to three jobs (a redraw is three flushes), two keys to a
\* report, a board of two LEDs that owes up to three late replies.
SPECIFICATION Spec
CONSTANTS
  d1 = d1
  d2 = d2
  Devices <- MCDevices
  Connected = d1
  LEDs <- MCLEDs
  Cached <- MCCached
  MaxBatch = 2
  MaxLen = 3
  NumLEDs = 2
  MaxLag = 3
INVARIANTS NothingIsLost GroupsAreSendable ArrivalOrderIsKept LayoutIsRight
