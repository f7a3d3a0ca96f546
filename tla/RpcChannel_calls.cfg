\* Two calls of one thread, with closures or without.  The closure of one stops
\* the loop and holds its channel.
SPECIFICATION Spec
CONSTANTS
  Calls = {c1, c2}
  Stopping = {c1}
  Capturing = {c1}
  NoCall = nocall
CHECK_DEADLOCK FALSE
INVARIANT TypeOK
INVARIANT WantedChannelIsHeld
PROPERTY OneOutcome
PROPERTY OutcomeKept
PROPERTY CallFinishes
