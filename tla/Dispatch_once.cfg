\* Three requests with one key, the third one for something else.
SPECIFICATION FairSpec
CONSTANTS
  r1 = r1
  r2 = r2
  r3 = r3
  Fallback = TRUE
  Requests <- ThreeRequests
  Fingerprint <- ThreeFingerprints
  Endings = {"native_fails", "job_stored", "undecodable", "truncated", "result_unwritten", "answered"}
INVARIANTS
  TypeOK
  SingleDispatch
  NoBlindRetry
  
  
PROPERTY
  TombstoneIsKept
  RequestEnds
CHECK_DEADLOCK FALSE
