SPECIFICATION Spec
CONSTANTS
  INIT_PER = 3
  REF_PER = 45
  SC_CL = 3
  SC_RCD = 3
  LENGTH = 8
  BURSTS = 2
  PAGE = 8
  BANKWORDS = 1024
  CasLatency = 3
  DevPage = 8
  Banks = {0, 1}
  tRCD = 3
  tRP = 3
  tRFC = 7
  PowerUpOpen <- IdlePowerUp
  READY_AT = 2
  RST0_AT = 206
  RST1_AT = 210
  RST2_AT = 208
  CONT_MAX = 212
  KEY_USED = TRUE
INVARIANT WriteAligned
