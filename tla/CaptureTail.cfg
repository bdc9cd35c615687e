\* Every response of up to seven bytes in every way of cutting it, with a window of six:
\* both keys with their numbers fit it, and a response can be longer.
CONSTANTS
  Bytes = {1, 10, 11, 12, 13}
  Spaces = {10}
  OpenAIKey <- MCOpenAIKey
  AnthropicKey <- MCAnthropicKey
  ResponseTailBytes = 6
  MaxBody = 7
SPECIFICATION Spec
INVARIANTS
  TypeOK
  TailIsSuffix
  HitIsGenuine
  LateCountIsSeen
