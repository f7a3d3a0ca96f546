\* All identifiers of three digits, drawn once and again.
SPECIFICATION IDSpec
CONSTANTS
  Nine = 4
  messageIDLen = 3
  MaxDrawn = 2
PROPERTY CountsByOne
