SPECIFICATION CallSpec
CONSTANTS
  Error = {"network", "ssl-tls"}
  httpA = httpA
  httpsA = httpsA
  httpB = httpB
  a = a
  b = b
  Origin = {httpA, httpsA, httpB}
  HostOf <- Hosts
  MaxRedirects = 2
  MaxBody = 2
INVARIANTS
  FirstCauseIsReported
  NothingOutlivesTheCall
  CredentialsStayAtOrigin
PROPERTIES
  BoundedCallsEnd
CHECK_DEADLOCK FALSE
