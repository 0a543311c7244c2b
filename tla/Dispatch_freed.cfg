\* A connector whose AdaptResponse may fail.
SPECIFICATION Spec
CONSTANTS
  r1 = r1
  r2 = r2
  r3 = r3
  Fallback = TRUE
  Requests <- TwoRequests
  Fingerprint <- TwoFingerprints
  Endings = {"adapt_fails", "answered"}
INVARIANT
  SingleDispatch
CHECK_DEADLOCK FALSE
