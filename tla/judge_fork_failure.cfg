CONSTANTS
  Session = {"default"}
  Compiled = {"default"}
  Timed = {"default"}
  Outfile <- MCOutfile
  Call <- MCCall
  Raising <- MCRaising
  Number <- MCNumber
  OrigRax <- MCOrigRax
  Named <- MCNamed
  Whitelist <- MCWhitelist
  Linux = TRUE
  Fault = {"fork"}
SPECIFICATION Spec
INVARIANTS AcceptedCorrect
CHECK_DEADLOCK FALSE
