----------------------------- MODULE AccessTokens -----------------------------
(***************************************************************************)
(* The clock arithmetic of access tokens.  Time is a tick count with       *)
(* TicksPerSecond ticks in a second; a token's iat and exp are whole       *)
(* seconds, a cut-off and a ledger expiry are exact.                       *)
(***************************************************************************)
EXTENDS Integers

CONSTANTS
  TicksPerSecond, \* resolution of the server clock
  Lifetime,       \* ACCESS_TOKEN_EXPIRE_HOURS, in seconds
  MaxTick         \* bound on the clock

ASSUME AccessTokensAssumption ==
  /\ TicksPerSecond \in Nat \ {0}
  /\ Lifetime \in Nat \ {0}
  /\ MaxTick \in Nat

Never == -1
Ticks == {Never} \cup 0..MaxTick

SecondOf(now) == now \div TicksPerSecond

\* The iat of a token created at tick t, and its last good second.
Iat(t)          == SecondOf(t) * TicksPerSecond
ExpirySecond(t) == SecondOf(t) + Lifetime

(* Defect: a revocation is dropped when exp begins, not when it is over. *)
ExpiresWithExp(t) == ExpirySecond(t) * TicksPerSecond

\* The library takes a token throughout its exp second; its revocation is
\* kept until the following one.
Unexpired(t, now) == SecondOf(now) <= ExpirySecond(t)
ExpiresAt(t)      == (ExpirySecond(t) + 1) * TicksPerSecond
===============================================================================
