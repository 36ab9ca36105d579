CONSTANTS
  Kid = {k1, k2, k3}
  NoKid = NoKid
  Worker = {w1}
  NoWorker = NoWorker
  Polling = {}
  Req = {r1}
  MaxValidKeys = 2
  JwksCap = 2
  MaxNow = 3
SPECIFICATION Spec
PROPERTY RotationKeepsValidKeys
