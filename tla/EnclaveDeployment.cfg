\* One configuration and one enclave object besides the one the scripts make,
\* two images, two runs of an enclave.
SPECIFICATION Spec
CONSTANTS
  operator = operator
  other = other
  k1 = k1
  k2 = k2
  laptop = laptop
  i1 = i1
  i2 = i2
  p1 = p1
  p2 = p2
  zero = zero
  None = None
  Senders <- MCSenders
  CapOwner = operator
  Operator = operator
  ConfigIds = {c1}
  EnclaveIds = {e1}
  Pcrs <- MCPcrs
  Keys <- MCKeys
  MaxVersion = 1
  Images <- MCImages
  PcrsOf <- MCPcrsOf
  ZeroPcrs = zero
  LaptopKey = laptop
  EnvPcrs <- MCEnvPcrs
INVARIANTS
  RegisteredIsMeasured
  VaultCoSignerMeasured
  ReadyMeansNonDebug
SYMMETRY KeySymmetry
CHECK_DEADLOCK FALSE
