-------------------------------- MODULE Pow --------------------------------
(***************************************************************************)
(* The proof-of-work challenge: sentinel_pow.c.  Nothing is stored; the    *)
(* challenge and the cookie are MACs of the client's address and a number, *)
(* which nobody makes without the secret.                                  *)
(***************************************************************************)
EXTENDS Signals

\* HMAC-SHA256(secret, addr || n)
Mac(secret, addr, n) == [secret |-> secret, addr |-> addr, n |-> n]

\* Mutant: every second has its own challenge.
ChallengeOfSecond(c, addr, now) == Mac(c.pow_secret, addr, now)

\* sentinel_pow_challenge: one challenge for each address and period of pow_ttl.
Challenge(c, addr, now) == Mac(c.pow_secret, addr, now \div c.pow_ttl)

\* sentinel_pow_cookie_mac
CookieMac(c, addr, expiry) == Mac(c.pow_secret, addr, expiry)

\* sentinel_pow_set_cookie
Cookie(c, addr, now) ==
  LET expiry == now + c.pow_ttl
  IN  [expiry |-> expiry, mac |-> CookieMac(c, addr, expiry)]

\* Mutant: the cookie's age is not looked at.
CookieValidForever(c, addr, cookie, now) ==
  cookie # None /\ cookie.mac = CookieMac(c, addr, cookie.expiry)

\* sentinel_pow_check_cookie: NGX_OK.  Absent, expired and forged cookies are
\* all answered with a challenge.
CookieValid(c, addr, cookie, now) ==
  /\ cookie # None
  /\ cookie.expiry > now
  /\ cookie.mac = CookieMac(c, addr, cookie.expiry)

\* What a browser finds for the challenge of a page: a nonce that has at least
\* bits leading zero bits with this challenge and, but for luck, with no other.
Solution(challenge, bits) == [challenge |-> challenge, bits |-> bits]

\* sentinel_pow_get_nonce and sentinel_pow_meets_difficulty
Solves(c, addr, nonce, now) ==
  /\ nonce # None
  /\ nonce.challenge = Challenge(c, addr, now)
  /\ nonce.bits >= c.pow_difficulty

\* What may fail for want of memory or in the MAC: the check of the cookie, the
\* challenge, and what is sent, the page or the new cookie.
Faults == {"check", "challenge", "output"}

\* sentinel_pow_dispatch: what is done with a request in the challenge band.
Dispatch(c, addr, cookie, nonce, now, faults) ==
  IF ~c.pow \/ c.pow_secret = None THEN "off"
  ELSE IF CookieValid(c, addr, cookie, now) /\ "check" \notin faults
  THEN "cookie"
  ELSE IF "challenge" \in faults THEN "off"
  ELSE IF Solves(c, addr, nonce, now) THEN "solved"
  ELSE IF "output" \in faults THEN "page failed"
  ELSE "page"
=============================================================================
