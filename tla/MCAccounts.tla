----------------------------- MODULE MCAccounts -----------------------------
\* Values for checking Accounts: one mailbox in two spellings, a Google account
\* with the same address and one without, two users, three refresh tokens.
EXTENDS Accounts, TLC

CONSTANTS c1, c2, u1, u2, t1, t2, t3

Plain(text) == [text |-> text, style |-> "plain"]
Shouted(text) == [text |-> text, style |-> "shouted"]
Missing == Plain(Blank)

Claim(provider, subject, email) == [provider |-> provider, subject |-> subject, email |-> email]

MCClaims ==
  {Claim("email", Missing, Plain("me@x")), Claim("email", Shouted("me@x"), Missing),
   Claim("google", Plain("7"), Plain("me@x")), Claim("google", Plain("8"), Missing)}

MCMailbox == {"me@x"}

Interchangeable ==
  Permutations({c1, c2}) \union Permutations({u1, u2}) \union Permutations({t1, t2, t3})

=============================================================================
