\* Two providers, windows of five results: one failure in five makes a window
\* unhealthy without opening the circuit, two open it.
CONSTANTS
  Providers = {claude, openai}
  claude = claude
  openai = openai
  Chain <- MCChain
  Window = 5
  MinCalls = 3
  MaxRetries = 2
  NoProvider = NoProvider
SPECIFICATION Spec
PROPERTY ProbeSettlesCircuit
