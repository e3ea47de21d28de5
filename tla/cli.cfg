SPECIFICATION Spec
CONSTANTS
  Invocations <- MCInvocations
  Replies <- OneReplyPerVerdict
  Second = 4
  MaxDuration = 8191
INVARIANTS
  GreenCheckStartsDaemon
  NoQuietFallback
  
