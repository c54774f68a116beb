----------------------------- MODULE MCPreFlight -----------------------------
EXTENDS PreFlight

Case(id, toolUse) == [id |-> id, toolUse |-> toolUse]
MCSuite == [c \in {"isolation", "tools"} |->
              IF c = "isolation" THEN <<Case(1, FALSE), Case(2, FALSE)>>
              ELSE <<Case(3, TRUE)>>]

Model(input, output, limit, tools) ==
  [input |-> input, output |-> output, limit |-> limit, tools |-> tools]
\* A request to xAI's model may cost three times what the run's check assumes,
\* and OpenAI's second model, which that check passes over, is the dearer one.
MCModels == [p \in Providers |->
  CASE p = "openai" -> <<Model(1, 1, 1, TRUE), Model(0, 3, 1, FALSE)>>
    [] p = "google" -> <<Model(1, 1, 1, TRUE)>>
    [] p = "xai" -> <<Model(0, 1, 3, TRUE)>>
    [] OTHER -> <<>>]
MCProviderCap == [p \in Providers |-> IF p = "xai" THEN 4 ELSE 8]

Request(providers, categories, cap, partial, dryRun) ==
  [providers |-> providers, categories |-> categories, cap |-> cap,
   partial |-> partial, dryRun |-> dryRun]
MCRequests ==
  {Request(p, c, n, partial, FALSE) :
     p \in {{"openai"}, {"gemini", "xai"}, {"openai", "google"}, {"mistral", "xai"}},
     c \in {<<"isolation">>, <<"isolation", "tools">>, <<"tools", "tools">>, <<"isolation", "retired">>},
     n \in {-1, 1, 2}, partial \in BOOLEAN}
  \cup {Request({"anthropic", "google"}, <<"tools">>, 2, TRUE, TRUE)}

AllKeys == {"OPENAI_API_KEY", "ANTHROPIC_API_KEY", "GOOGLE_API_KEY", "XAI_API_KEY"}
MCKeySets == {AllKeys, {}, {"GEMINI_API_KEY", "XAI_API_KEY"},
              {"OPENAI_API_KEY", "GEMINI_API_KEY"}, {"GOOGLE_API_KEY", "XAI_API_KEY"}}
=============================================================================
