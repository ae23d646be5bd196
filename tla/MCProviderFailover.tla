------------------------- MODULE MCProviderFailover -------------------------
(***************************************************************************)
(* A primary and one fallback.                                             *)
(***************************************************************************)
EXTENDS ProviderFailover
CONSTANTS claude, openai

MCChain == <<claude, openai>>
=============================================================================
