\* Two providers, windows of five results: one failure in five makes a window
\* unhealthy without opening the circuit, two open it.
\* Three callers, two calls in a period of two ticks, one fault under requests to
\* create.
CONSTANTS
  Providers = {claude, openai}
  claude = claude
  openai = openai
  Chain <- MCChain
  Window = 5
  MinCalls = 3
  MaxRetries = 2
  NoProvider = NoProvider
  Callers = {c1, c2, c3}
  Limit = 2
  Period = 2
  MaxCount = 5
  MaxAmiss = 1
SPECIFICATION MCSpec
INVARIANTS BadWindowIsOpen OvershootIsConcurrent SlotsAccounted
PROPERTIES PrimaryComesBack WindowReopens
\* A counter that is left without expiry refuses everyone for ever.
CHECK_DEADLOCK FALSE
