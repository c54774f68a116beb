CONSTANTS
  Providers = {"openai", "google", "anthropic"}
  Statuses = {400, 401, 408, 409, 429, 503, 529}
  MaxAttempts = 2
  None = None
  p1 = p1
  p2 = p2
  tool = tool
  j1 = j1
  j2 = j2
  Phrases = {p1, p2}
  Tools = {tool}
  Registered = {"guardrail_consistency", "tool_use_boundaries", "prompt_robustness", "context_isolation", "long_context_behavior", "content_integrity"}
  Cases <- MCCases
  AnswersTo <- MCAnswersTo
  JudgeIds = {j1, j2}
  Outputs <- MCOutputs
  Panels <- MCPanels
SPECIFICATION Spec
INVARIANT CleanAnswersCount
