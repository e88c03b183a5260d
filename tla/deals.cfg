\* One deal, three calls after its creation, a worker, two failures.
SPECIFICATION FairSpec
CONSTANTS
  r1 = r1  r2 = r2  r3 = r3
  Requests = {r1, r2, r3}
  Hashes = {r1, r2, r3}
  NoHash = NoHash
  NoStage = NoStage
  Regular = {lead}
  Won = won
  Lost = lost
  Asked = {"OPEN", "ON_HOLD"}
  Attempts = 2
  MaxStalls = 1
  MaxFaults = 2
INVARIANTS WonStays NotarisedIsKept WinsAreRegistered ConfirmedIsOnChain
PROPERTIES NotarisationEnds
\* Every call may have ended.
CHECK_DEADLOCK FALSE
