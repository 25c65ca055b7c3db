SPECIFICATION Spec
CONSTANTS
  Opcodes = {"TEXT", "PONG"}
  Payloads <- MCPayloads
  SizeOf <- MCSizeOf
  PayloadByte <- MCPayloadByte
  MaskKeys <- MCMaskKeys
  Cap = 65554
  MaxFrames = 3
INVARIANTS TypeOK MessagesDecode EncodesFrames TornIsIncomplete
