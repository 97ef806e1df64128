---------------------------- MODULE MCSummaryJob ----------------------------
\* Values for checking SummaryJob: three models with the prices the tests use, a
\* thousand input tokens (on the cheap model 2848 micro-dollars for a brief summary),
\* and caps that bind at different points of the chain.
EXTENDS SummaryJob, FiniteSetsExt

Haiku == [input |-> 800, output |-> 4000, context |-> 200000]
Sonnet == [input |-> 3000, output |-> 15000, context |-> 200000]
Opus == [input |-> 15000, output |-> 75000, context |-> 1500]

MCLadder == <<Haiku, Sonnet, Opus>>

Req(length, cap, tokens, substantial) ==
  [length |-> length, cap |-> cap, tokens |-> tokens, substantial |-> substantial]

MCRequest ==
  {Req(length, cap, 1000, TRUE) :
      length \in Length, cap \in {-1, 2848, 9000, 10680, 20000, 1000000}}
  \union {Req("Brief", 9000, 1000, FALSE)}

=============================================================================
