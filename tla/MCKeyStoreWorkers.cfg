CONSTANTS
  Kid = {k1, k2}
  NoKid = NoKid
  Worker = {w1, w2}
  NoWorker = NoWorker
  Polling = {w1}
  Req = {r1}
  MaxValidKeys = 2
  JwksCap = 2
  MaxNow = 2
SPECIFICATION FairSpec
INVARIANTS OneActiveKey SignerCanVerify
PROPERTIES BootLockFreed
