SPECIFICATION AuthSpec
CONSTANTS
  Verifiers = {v1, v2}
  MaxNonce = 1
  MaxAttempts = 2
  NonceTtl = 2
INVARIANT NonceSingleUse
CHECK_DEADLOCK FALSE
