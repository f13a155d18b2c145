-------------------------- MODULE MCRuntimePipeline ---------------------------
(***************************************************************************)
(* RuntimePipeline for TLC: the deterministic runtime, and the model       *)
(* behind three kinds of client, with a key that may be missing and every  *)
(* fallback a configuration may name.                                      *)
(***************************************************************************)
EXTENDS RuntimePipeline

Configuration(enabled, provider, retries, fallback, other, keys) ==
    [runtime_enabled |-> enabled, provider |-> provider,
     max_retries |-> retries, fallback_enabled |-> fallback,
     fallback_provider |-> other, keys |-> keys,
     models |-> {"groq", "gemini", "ollama"}, ollama_url |-> TRUE]

Configurations ==
    {Configuration(FALSE, "fake", 2, FALSE, "fake", {}),
     Configuration(TRUE, "fake", 2, FALSE, "fake", {}),
     Configuration(TRUE, "groq", 1, TRUE, "ollama", {"groq"}),
     Configuration(TRUE, "ollama", 1, TRUE, "fake", {}),
     Configuration(TRUE, "ollama", 0, TRUE, "gemini", {}),
     Configuration(TRUE, "ollama", 0, TRUE, "ollama", {}),
     Configuration(TRUE, "gemini", 2, FALSE, "fake", {"gemini"})}
=============================================================================
