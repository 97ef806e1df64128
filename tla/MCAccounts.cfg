CONSTANTS
  c1 = c1
  c2 = c2
  u1 = u1
  u2 = u2
  t1 = t1
  t2 = t2
  t3 = t3
  Caller = {c1, c2}
  Claims <- MCClaims
  Mailbox <- MCMailbox
  User = {u1, u2}
  Token = {t1, t2, t3}
  NoCaller = NoCaller
  NoUser = NoUser
  NoToken = NoToken
  NoClaims = NoClaims
  Invalid = Invalid
  AccessTtl = 1
  RefreshTtl = 2
  MaxClock = 2
  MaxFaults = 1
SYMMETRY Interchangeable
SPECIFICATION Spec
INVARIANTS OneLivePerSignIn SpentRemembered LoggedOutWithinTtl OneUserPerPerson LedgerTells
CHECK_DEADLOCK FALSE
