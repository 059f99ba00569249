------------------------- MODULE RequestPathProofs -------------------------
(***************************************************************************)
(* Proofs about RequestPath, for any configuration files, routes, browsers *)
(* and times: who is let through the challenge band has earned it, an      *)
(* honest browser needs two solutions at most, a location enforces its own *)
(* verdict, and what a file that loads says of zones and timers works.     *)
(***************************************************************************)
EXTENDS RequestPath, TLAPS, NaturalsInduction, WellFoundedInduction,
        FiniteSetTheorems, SequenceTheorems

-----------------------------------------------------------------------------
(* The inductive invariant *)

Macs == [secret : Secrets, addr : DOMAIN Addrs, n : Nat]

Cookies == [expiry : Nat, mac : Macs]

Pages ==
  [uri : DOMAIN Routes, shape : Shapes, from : ToSet(Locs) \cup {None},
   nonce : Nonces, ttl : Lifetimes, due : Nat]

Browser ==
  [addr : DOMAIN Addrs, cookie : Cookies \cup {None}, page : Pages \cup {None},
   tries : Nat]

\* A request is a record of the fields of NewReq.
Request(r) ==
  /\ r = [b |-> r.b, uri |-> r.uri, shape |-> r.shape, cookie |-> r.cookie,
          nonce |-> r.nonce, from |-> r.from, phase |-> r.phase, loc |-> r.loc,
          path |-> r.path, redirected |-> r.redirected, ctx |-> r.ctx,
          result |-> r.result, limited |-> r.limited]
  /\ r.b \in Browsers
  /\ r.uri \in DOMAIN Routes
  /\ r.shape \in Shapes
  /\ r.cookie \in Cookies \cup {None}
  /\ r.nonce \in Nonces \cup {None}
  /\ r.from \in ToSet(Locs) \cup {None}
  /\ r.phase \in {"server rewrite", "location", "preaccess", "content", "log"}
  /\ r.loc \in ToSet(Locs)

Types ==
  /\ clock \in Epoch .. MaxTime
  /\ file \in Accepted \cup {None}
  /\ draft \in DOMAIN Drafts \cup {None}
  /\ reloads \in 0 .. MaxReloads
  /\ browser \in [Browsers -> Browser]
  /\ earned \in [DOMAIN Addrs -> [Secrets -> Nat]]
  /\ Busy => file # None /\ Request(req)

\* Pages are dated: their challenge is that of a second no longer ago than the
\* browser takes to solve it.
Dated(p, now) ==
  \E t \in Epoch .. now :
    /\ p.nonce.challenge.n = t \div p.ttl
    /\ now <= p.due
    /\ p.due <= t + MaxSolve

PagesDated ==
  \A b \in Browsers : browser[b].page # None => Dated(browser[b].page, clock)

\* A nonce that a request carries is recent, and what it is worth is on record.
NonceEarned(nonce, now, record) ==
  \E ttl \in Lifetimes, t \in Epoch .. now :
    /\ nonce.challenge.n = t \div ttl
    /\ now <= t + MaxSolve
    /\ (nonce.challenge.n + 2) * ttl
         <= record[nonce.challenge.addr][nonce.challenge.secret]

NoncesEarned ==
  Busy /\ req.nonce # None => NonceEarned(req.nonce, clock, earned)

\* No cookie lasts longer than what was earned under its MAC.
CookieEarned(cookie, record) ==
  cookie # None => cookie.expiry <= record[cookie.mac.addr][cookie.mac.secret]

CookiesEarned ==
  /\ \A b \in Browsers : CookieEarned(browser[b].cookie, earned)
  /\ Busy => CookieEarned(req.cookie, earned)

\* The page that a browser works on, unless something has made it worthless,
\* leads to a nonce that its location, with configuration c, accepts in the
\* second t of the page; a second page was sent early in its period.
Fits(nonce, c, addr, tries, t) ==
  /\ nonce = Solution(Challenge(c, addr, t), c.pow_difficulty)
  /\ tries = 1 => t < (t \div c.pow_ttl) * c.pow_ttl + MaxSolve

PageFits(br, conf, now) ==
  \E t \in Epoch .. now :
    /\ Fits(br.page.nonce, conf[br.page.from], br.addr, br.tries, t)
    /\ now <= br.page.due
    /\ br.page.due <= t + MaxSolve

PagesFit ==
  \A b \in Browsers :
    browser[b].page # None /\ browser[b].page.from # None =>
      file # None /\ PageFits(browser[b], Conf, clock)

\* The same of a request that carries the nonce, until it is answered with a
\* page again.
RequestFits ==
  Busy /\ req.from # None /\ ~(req.phase = "log" /\ req.result = "page") =>
    \E t \in Epoch .. clock :
      /\ Fits(req.nonce, Conf[req.from], browser[req.b].addr,
              browser[req.b].tries, t)
      /\ clock <= t + MaxSolve

TryInv == Types /\ PagesFit /\ RequestFits /\ SecondTrySucceeds

\* The ctx is that of an evaluation for the block and the path of pair p.
JudgedBy(ctx, p) == ctx # NoCtx /\ <<ctx.by, ctx.path>> = p

\* The path under which a request enters the phases.
Entered(r) == IF r.redirected THEN {} ELSE Routes[r.uri].viaPath

\* Somebody reads a variable before the location is found.
ReadOnWay(r) ==
  \/ "server" \in Routes[r.uri].reads
  \/ ("location" \in Routes[r.uri].reads /\ ~r.redirected)

\* On its way to the PREACCESS handler a request has a ctx once a variable was
\* read, and not before.
OnWay(r) ==
  /\ r.phase \in {"server rewrite", "location"} =>
       /\ r.path = Entered(r)
       /\ ~r.redirected => r.loc = Routes[r.uri].via
  /\ r.phase = "server rewrite" => r.ctx = NoCtx
  /\ r.phase = "location" =>
       IF "server" \in Routes[r.uri].reads
       THEN JudgedBy(r.ctx, FirstToAsk(r))
       ELSE r.ctx = NoCtx
  /\ r.phase = "preaccess" =>
       IF ReadOnWay(r) THEN JudgedBy(r.ctx, FirstToAsk(r)) ELSE r.ctx = NoCtx

CtxOnWay == Busy => OnWay(req)

OwnInv == Types /\ CtxOnWay /\ VerdictOwn

EarnedInv ==
  Types /\ PagesDated /\ NoncesEarned /\ CookiesEarned /\ AdmissionEarned

-----------------------------------------------------------------------------
(* Configurations *)

\* A block of a file that loads has passed the range checks of the merge.
LEMMA LoadedInRange ==
  ASSUME NEW f \in Accepted, NEW l \in ToSet(MergeOrder)
  PROVE  InRange(Loaded[f].conf[l])
<1>1. PICK st : Loaded[f] = Started(st.shm, Merged(st))
  BY DEF Loaded, Load, Accepted
<1>2. Merged(st).ok /\ Loaded[f].conf = Merged(st).conf
  BY <1>1 DEF Started, Accepted
<1> QED
  BY <1>2 DEF Merged

LEMMA LocIsBlock == ToSet(Locs) \subseteq ToSet(MergeOrder)
<1> SUFFICES ASSUME NEW l \in ToSet(Locs)
             PROVE  l \in ToSet(MergeOrder)
  OBVIOUS
<1>1. Locs \in Seq(STRING)
  BY ConfigAssumption
<1>2. PICK i \in 1 .. Len(Locs) : l = Locs[i]
  BY <1>1 DEF ToSet
<1>3. /\ i + 1 \in DOMAIN MergeOrder
      /\ MergeOrder[i + 1] = l
  BY <1>1, <1>2 DEF MergeOrder
<1> QED
  BY <1>3 DEF ToSet

\* The location that serves a request has a secret, a lifetime and a difficulty
\* of the files that load.
LEMMA ConfRanges ==
  ASSUME file \in Accepted, NEW l \in ToSet(Locs)
  PROVE  /\ Conf[l].pow_secret \in Secrets
         /\ Conf[l].pow_ttl \in Lifetimes
         /\ Conf[l].pow_difficulty \in Nat
<1>1. PICK c : c = Conf[l]
  OBVIOUS
<1>2. InRange(c)
  BY <1>1, LoadedInRange, LocIsBlock DEF Conf
<1>3. PowInRange(c)
  BY <1>2 DEF InRange
<1> QED
  BY <1>1, <1>3 DEF PowInRange, Secrets, Lifetimes, Conf

LEMMA LifetimesPositive == Lifetimes \subseteq Nat \ {0}
<1> SUFFICES ASSUME NEW f \in Accepted, NEW l \in ToSet(Locs)
             PROVE  Loaded[f].conf[l].pow_ttl \in Nat \ {0}
  BY DEF Lifetimes
<1>1. PICK c : c = Loaded[f].conf[l]
  OBVIOUS
<1>2. InRange(c)
  BY <1>1, LoadedInRange, LocIsBlock
<1>3. PowInRange(c)
  BY <1>2 DEF InRange
<1> QED
  BY <1>1, <1>3 DEF PowInRange

-----------------------------------------------------------------------------
(* Periods of a challenge *)

LEMMA Period ==
  ASSUME NEW t \in Nat, NEW d \in Nat \ {0}
  PROVE  /\ t \div d \in Nat
         /\ (t \div d) * d <= t
         /\ t < (t \div d + 1) * d
OBVIOUS

\* A later second is in the same period, or in one that began after the earlier.
LEMMA LaterPeriod ==
  ASSUME NEW t \in Nat, NEW u \in Nat, t <= u, NEW d \in Nat \ {0},
         t \div d # u \div d
  PROVE  /\ t < (u \div d) * d
         /\ (t \div d + 1) * d <= u
<1>1. PICK m \in Nat : m = t \div d /\ m * d <= t /\ t < (m + 1) * d
  BY Period
<1>2. PICK n \in Nat : n = u \div d /\ n * d <= u /\ u < (n + 1) * d
  BY Period
<1>3. m # n
  BY <1>1, <1>2
<1>4. m * d < (n + 1) * d
  BY <1>1, <1>2, SMT
<1>5. m < n + 1
  BY <1>4, SMT
<1>6. m + 1 <= n
  BY <1>3, <1>5
<1>7. (m + 1) * d <= n * d
  BY <1>6, SMT
<1> QED
  BY <1>1, <1>2, <1>7

-----------------------------------------------------------------------------
(* Types *)

\* What the phases leave of a request as it was sent.
SameSender(r, s) ==
  /\ s.b = r.b
  /\ s.uri = r.uri
  /\ s.cookie = r.cookie
  /\ s.nonce = r.nonce
  /\ s.from = r.from

\* A step of the phases changes fields of the request and nothing else.
PhaseStep ==
  /\ Busy
  /\ Request(req')
  /\ SameSender(req, req')
  /\ UNCHANGED <<clock, file, draft, reloads, earned>>

LEMMA RewriteStep ==
  ASSUME Types, NEW k, ServerRewrite(k) \/ LocationRewrite(k)
  PROVE  /\ PhaseStep
         /\ req'.result = req.result
         /\ req'.phase \in {"location", "preaccess"}
         /\ UNCHANGED browser
<1>1. Busy /\ Request(req)
  BY DEF Types, ServerRewrite, LocationRewrite
<1>2. CASE ServerRewrite(k)
  <2>1. PICK x : req' = [req EXCEPT !.phase = "location", !.ctx = x]
    BY <1>2 DEF ServerRewrite
  <2>2. Request(req') /\ SameSender(req, req') /\ req'.result = req.result
        /\ req'.phase = "location"
    BY <1>1, <2>1 DEF Request, SameSender
  <2> QED
    BY <1>1, <1>2, <2>2 DEF PhaseStep, ServerRewrite
<1>3. CASE LocationRewrite(k)
  <2>1. PICK x, l, p :
          /\ req' = [req EXCEPT !.phase = "preaccess", !.ctx = x, !.loc = l,
                                !.path = p]
          /\ l = IF ~req.redirected THEN Routes[req.uri].to ELSE req.loc
    BY <1>3 DEF LocationRewrite
  <2>2. l \in ToSet(Locs)
    BY <1>1, <2>1, PathAssumption DEF Request
  <2>3. Request(req') /\ SameSender(req, req') /\ req'.result = req.result
        /\ req'.phase = "preaccess"
    BY <1>1, <2>1, <2>2 DEF Request, SameSender
  <2> QED
    BY <1>1, <1>3, <2>3 DEF PhaseStep, LocationRewrite
<1> QED
  BY <1>2, <1>3

\* Every outcome of the PREACCESS handler but those of the challenge.
Outcomes ==
  {"unjudged", "observed", "pass", "throttled", "shielded", "closed", "held",
   "tarpit failed", "blocked"}

HandlerStep(x, how) ==
  /\ req.phase = "preaccess"
  /\ req'.phase \in {"content", "log"}
  /\ req'.ctx = x
  /\ req'.result = how
  /\ req'.loc = req.loc
  /\ req'.path = req.path
  /\ req'.redirected = req.redirected

\* The two ways in which the handler ends.
LEMMA Ends ==
  ASSUME Types, NEW x, NEW how, At("preaccess"),
         Proceed(x, how) \/ Answer(x, how)
  PROVE  /\ Request(req')
         /\ SameSender(req, req')
         /\ HandlerStep(x, how)
         /\ Answer(x, how) => req'.phase = "log"
<1>1. Busy /\ Request(req) /\ req.phase = "preaccess"
  BY DEF Types, At
<1> QED
  BY <1>1, ZenonT(60) DEF Proceed, Answer, Request, SameSender, HandlerStep

LEMMA SkipStep ==
  ASSUME Types, Skip
  PROVE  /\ PhaseStep /\ UNCHANGED browser
         /\ HandlerStep(req.ctx, "unjudged")
<1>1. At("preaccess") /\ Proceed(req.ctx, "unjudged")
  BY DEF Skip
<1> QED
  BY <1>1, Ends DEF PhaseStep, Skip, At

LEMMA JudgedStep ==
  ASSUME Types, NEW k,
         \/ Observe(k) \/ Allow(k) \/ Blocked(k)
         \/ \E held \in {"held", "closed", "error"} : Tarpitted(k, held)
  PROVE  /\ PhaseStep /\ UNCHANGED browser
         /\ \E how \in Outcomes : HandlerStep(GetCtx(req, req.loc, k), how)
<1> DEFINE x == GetCtx(req, req.loc, k)
<1> HIDE DEF x
<1>1. CASE Observe(k)
  <2>1. At("preaccess") /\ Proceed(x, "observed")
    BY <1>1 DEF Observe, x
  <2>2. /\ UNCHANGED <<clock, file, draft, reloads, browser, earned>>
        /\ "observed" \in Outcomes
    BY <1>1 DEF Observe, Outcomes
  <2> QED
    BY <2>1, <2>2, Ends DEF PhaseStep, At, x
<1>2. CASE Allow(k)
  <2>1. At("preaccess") /\ Proceed(x, "pass")
    BY <1>2 DEF Allow, Enforces, x
  <2>2. /\ UNCHANGED <<clock, file, draft, reloads, browser, earned>>
        /\ "pass" \in Outcomes
    BY <1>2 DEF Allow, Outcomes
  <2> QED
    BY <2>1, <2>2, Ends DEF PhaseStep, At, x
<1>3. CASE Blocked(k)
  <2>1. At("preaccess") /\ Answer(x, "blocked")
    BY <1>3 DEF Blocked, Enforces, x
  <2>2. /\ UNCHANGED <<clock, file, draft, reloads, browser, earned>>
        /\ "blocked" \in Outcomes
    BY <1>3 DEF Blocked, Outcomes
  <2> QED
    BY <2>1, <2>2, Ends DEF PhaseStep, At, x
<1>4. ASSUME NEW held \in {"held", "closed", "error"}, Tarpitted(k, held)
      PROVE  /\ PhaseStep /\ UNCHANGED browser
             /\ \E how \in Outcomes : HandlerStep(x, how)
  <2>1. /\ At("preaccess") /\ Busy /\ Request(req) /\ req.phase = "preaccess"
        /\ UNCHANGED <<clock, file, draft, reloads, browser, earned>>
    BY <1>4 DEF Tarpitted, Enforces, At, Types
  <2>2. \/ req' = [req EXCEPT !.phase = "content", !.ctx = x,
                              !.result = "throttled", !.limited = TRUE]
        \/ \E how \in Outcomes : Proceed(x, how) \/ Answer(x, how)
    BY <1>4 DEF Tarpitted, x, Outcomes
  <2>3. CASE req' = [req EXCEPT !.phase = "content", !.ctx = x,
                                !.result = "throttled", !.limited = TRUE]
    <3>1. /\ Request(req') /\ SameSender(req, req')
          /\ HandlerStep(x, "throttled") /\ "throttled" \in Outcomes
      BY <2>1, <2>3 DEF Request, SameSender, HandlerStep, Outcomes
    <3> QED
      BY <2>1, <3>1 DEF PhaseStep
  <2>4. ASSUME NEW how \in Outcomes, Proceed(x, how) \/ Answer(x, how)
        PROVE  /\ PhaseStep /\ UNCHANGED browser
               /\ \E h \in Outcomes : HandlerStep(x, h)
    BY <2>1, <2>4, Ends DEF PhaseStep
  <2> QED
    BY <2>2, <2>3, <2>4
<1> QED
  BY <1>1, <1>2, <1>3, <1>4 DEF x

LEMMA RedirectStep ==
  ASSUME Types, Redirect
  PROVE  /\ PhaseStep /\ UNCHANGED browser
         /\ req'.phase = "server rewrite"
         /\ req'.ctx = NoCtx
         /\ req'.result = None
         /\ req'.redirected /\ req'.path = {}
         /\ req.phase = "content" \/ req.result = "blocked"
<1>1. Busy /\ Request(req) /\ Redirects
  BY DEF Types, Redirect
<1>2. /\ Routes[req.uri].redirect \in ToSet(Locs)
      /\ req.phase = "content" \/ req.result = "blocked"
  BY <1>1, PathAssumption DEF Redirects, Request
<1> QED
  BY <1>1, <1>2 DEF Redirect, PhaseStep, Request, SameSender, CtxCleared

\* A new request is as its browser sends it.
Sent(r, b, nonce, from) ==
  /\ Request(r)
  /\ r.b = b /\ r.cookie = browser[b].cookie
  /\ r.nonce = nonce /\ r.from = from
  /\ r.phase = "server rewrite" /\ r.ctx = NoCtx /\ r.result = None
  /\ ~r.redirected
  /\ r.loc = Routes[r.uri].via /\ r.path = Routes[r.uri].viaPath

LEMMA NewRequest ==
  ASSUME Types, NEW b \in Browsers, NEW u \in DOMAIN Routes, NEW q \in Shapes,
         NEW nonce \in Nonces \cup {None}, NEW from \in ToSet(Locs) \cup {None}
  PROVE  Sent(NewReq(b, u, q, nonce, from), b, nonce, from)
<1>1. browser[b].cookie \in Cookies \cup {None}
  BY DEF Types, Browser
<1>2. Routes[u].via \in ToSet(Locs)
  BY PathAssumption
<1> QED
  BY <1>1, <1>2 DEF NewReq, Request, Sent

\* The period of a challenge, a cookie and a page.
LEMMA PowTypes ==
  ASSUME Types, file # None, Request(req), NEW c, c = Conf[req.loc],
         NEW a \in DOMAIN Addrs, NEW s \in 1 .. MaxSolve
  PROVE  /\ Challenge(c, a, clock) \in Macs
         /\ Cookie(c, a, clock) \in Cookies
         /\ NewPage(req, c, a, clock + s) \in Pages
         /\ c.pow_ttl \in Nat \ {0}
<1>1. clock \in Nat /\ clock + s \in Nat
  BY PathAssumption DEF Types
<1>2. /\ c.pow_secret \in Secrets
      /\ c.pow_ttl \in Lifetimes
      /\ c.pow_difficulty \in Nat
  BY ConfRanges DEF Types, Request
<1>3. c.pow_ttl \in Nat \ {0}
  BY <1>2, LifetimesPositive
<1>4. clock \div c.pow_ttl \in Nat
  BY <1>1, <1>3, Period
<1>5. Challenge(c, a, clock) \in Macs
  BY <1>2, <1>4 DEF Challenge, Mac, Macs
<1>6. Cookie(c, a, clock) \in Cookies
  BY <1>1, <1>2, <1>3 DEF Cookie, CookieMac, Mac, Macs, Cookies
<1>7. Solution(Challenge(c, a, clock), c.pow_difficulty) \in Nonces
  BY <1>2, <1>5 DEF Solution, Nonces, Macs
<1>8. NewPage(req, c, a, clock + s) \in Pages
  BY <1>1, <1>2, <1>7 DEF NewPage, Pages, Request
<1> QED
  BY <1>3, <1>5, <1>6, <1>8

\* What a request in the challenge band leaves with its browser: a page, a
\* cookie, or nothing new.
Served(br, new, what, c, s) ==
  /\ new \in Browser
  /\ new.addr = br.addr
  /\ what = "page" =>
       /\ new.page = NewPage(req, c, br.addr, clock + s)
       /\ new.cookie = br.cookie
       /\ new.tries = IF req.from = req.loc THEN br.tries + 1 ELSE 0
  /\ what = "solved" =>
       /\ new.page = br.page
       /\ new.cookie = br.cookie \/ new.cookie = Cookie(c, br.addr, clock)
       /\ new.tries = 0
  /\ what \notin {"page", "solved"} => new = br

LEMMA ChallengeStep ==
  ASSUME Types, NEW k, NEW faults, NEW s \in 1 .. MaxSolve,
         Challenged(k, faults, s), NEW c, c = Conf[req.loc]
  PROVE  /\ Busy /\ Request(req) /\ file # None
         /\ PhaseStep
         /\ \E what, new :
              /\ what = Dispatch(c, browser[req.b].addr, req.cookie, req.nonce,
                                 clock, faults)
              /\ HandlerStep(GetCtx(req, req.loc, k), what)
              /\ what = "page" => req'.phase = "log"
              /\ Served(browser[req.b], new, what, c, s)
              /\ browser' = [browser EXCEPT ![req.b] = new]
<1> DEFINE x == GetCtx(req, req.loc, k)
<1> HIDE DEF x
<1>1. /\ At("preaccess")
      /\ UNCHANGED <<clock, file, draft, reloads, earned>>
  BY DEF Challenged, Enforces
<1>2. /\ Busy /\ Request(req) /\ file # None /\ req.b \in Browsers
      /\ browser \in [Browsers -> Browser]
  BY <1>1 DEF At, Types, Request
<1>3. PICK br \in Browser : br = browser[req.b]
  BY <1>2
<1>4. PICK a \in DOMAIN Addrs : a = br.addr
  BY <1>3 DEF Browser
<1>5. PICK what : what = Dispatch(c, a, req.cookie, req.nonce, clock, faults)
  OBVIOUS
<1>6. IF what = "page" THEN Answer(x, what) ELSE Proceed(x, what)
  BY <1>3, <1>4, <1>5 DEF Challenged, x
<1>7. /\ Request(req') /\ SameSender(req, req') /\ HandlerStep(x, what)
      /\ what = "page" => req'.phase = "log"
  BY <1>1, <1>6, Ends
<1>8. PhaseStep
  BY <1>1, <1>2, <1>7 DEF PhaseStep
<1>9. PICK page \in Pages : page = NewPage(req, c, a, clock + s)
  BY <1>2, PowTypes
<1>10. PICK cookie \in Cookies : cookie = Cookie(c, a, clock)
  BY <1>2, PowTypes
<1>11. browser' =
        CASE what = "page" ->
               [browser EXCEPT
                  ![req.b].page = page,
                  ![req.b].tries = IF req.from = req.loc THEN @ + 1 ELSE 0]
          [] what = "solved" ->
               [browser EXCEPT
                  ![req.b].cookie = IF "output" \in faults THEN @ ELSE cookie,
                  ![req.b].tries = 0]
          [] OTHER -> browser
  BY <1>3, <1>4, <1>5, <1>9, <1>10 DEF Challenged
<1>12. \E new : /\ Served(br, new, what, c, s)
                /\ browser' = [browser EXCEPT ![req.b] = new]
  <2>1. CASE what = "page"
    <3>1. PICK n \in Nat : n = IF req.from = req.loc THEN br.tries + 1 ELSE 0
      BY DEF Browser
    <3>2. PICK new : new = [br EXCEPT !.page = page, !.tries = n]
      OBVIOUS
    <3>3. browser' = [browser EXCEPT ![req.b] = new]
      BY <1>2, <1>3, <1>11, <2>1, <3>1, <3>2
    <3>4. /\ new \in Browser /\ new.addr = br.addr /\ new.page = page
          /\ new.cookie = br.cookie /\ new.tries = n
      BY <3>2 DEF Browser
    <3> QED
      BY <1>4, <1>9, <2>1, <3>1, <3>3, <3>4 DEF Served
  <2>2. CASE what = "solved"
    <3>1. PICK w \in Cookies \cup {None} :
            /\ w = IF "output" \in faults THEN br.cookie ELSE cookie
            /\ w = br.cookie \/ w = cookie
      BY DEF Browser
    <3>2. PICK new : new = [br EXCEPT !.cookie = w, !.tries = 0]
      OBVIOUS
    <3>3. browser' = [browser EXCEPT ![req.b] = new]
      BY <1>2, <1>3, <1>11, <2>2, <3>1, <3>2
    <3>4. /\ new \in Browser /\ new.addr = br.addr /\ new.page = br.page
          /\ new.cookie = w /\ new.tries = 0
      BY <3>2 DEF Browser
    <3> QED
      BY <1>4, <1>10, <2>2, <3>1, <3>3, <3>4 DEF Served
  <2>3. CASE what \notin {"page", "solved"}
    <3>1. browser' = [browser EXCEPT ![req.b] = br]
      BY <1>2, <1>3, <1>11, <2>3
    <3> QED
      BY <2>3, <3>1 DEF Served
  <2> QED
    BY <2>1, <2>2, <2>3
<1> QED
  BY <1>2, <1>3, <1>4, <1>5, <1>7, <1>8, <1>12 DEF x

LEMMA MaxOfTwo ==
  ASSUME NEW m \in Nat, NEW n \in Nat
  PROVE  Max({m, n}) \in Nat /\ m <= Max({m, n}) /\ n <= Max({m, n})
<1>1. \E x \in {m, n} : \A y \in {m, n} : x >= y
  <2>1. CASE m <= n
    BY <2>1
  <2>2. CASE ~(m <= n)
    BY <2>2
  <2> QED
    BY <2>1, <2>2
<1>2. Max({m, n}) \in {m, n} /\ \A y \in {m, n} : Max({m, n}) >= y
  BY <1>1 DEF Max
<1> QED
  BY <1>2

\* Spoiling a page leaves its puzzle and takes away its location.
SamePuzzle(p, q) == q.nonce = p.nonce /\ q.ttl = p.ttl /\ q.due = p.due

LEMMA SpoiltBrowser ==
  ASSUME NEW br \in Browser, NEW new, new = Spoilt(br)
  PROVE  /\ new \in Browser
         /\ new.addr = br.addr
         /\ new.cookie = br.cookie
         /\ new.tries = 0
         /\ new.page # None =>
              br.page # None /\ SamePuzzle(br.page, new.page)
              /\ new.page.from = None
<1>1. PICK p : p = IF br.page = None THEN None ELSE [br.page EXCEPT !.from = None]
  OBVIOUS
<1>2. /\ p \in Pages \cup {None}
      /\ p # None => /\ br.page # None /\ SamePuzzle(br.page, p)
                     /\ p.from = None
  <2>1. CASE br.page = None
    BY <1>1, <2>1
  <2>2. CASE br.page # None
    <3>1. br.page \in Pages
      BY <2>2 DEF Browser
    <3>2. p = [br.page EXCEPT !.from = None]
      BY <1>1, <2>2
    <3> QED
      BY <2>2, <3>1, <3>2 DEF Pages, SamePuzzle
  <2> QED
    BY <2>1, <2>2
<1>3. new = [br EXCEPT !.page = p, !.tries = 0]
  BY <1>1 DEF Spoilt
<1>4. /\ new \in Browser
      /\ new.addr = br.addr /\ new.cookie = br.cookie
      /\ new.tries = 0 /\ new.page = p
  <2>1. p \in Pages \cup {None}
    BY <1>2
  <2>2. new = [addr |-> br.addr, cookie |-> br.cookie, page |-> p, tries |-> 0]
    BY <1>3 DEF Browser
  <2>3. br.addr \in DOMAIN Addrs /\ br.cookie \in Cookies \cup {None}
    BY DEF Browser
  <2> QED
    BY <2>1, <2>2, <2>3 DEF Browser
<1> QED
  BY <1>2, <1>4

\* Resubmission: the browser gives up its page, and what it has solved is
\* recorded.
LEMMA ResubmitStep ==
  ASSUME Types, NEW b \in Browsers, Resubmit(b),
         NEW p, p = browser[b].page
  PROVE  /\ p \in Pages /\ p # None /\ p.due = clock
         /\ file # None
         /\ Sent(req', b, p.nonce, p.from)
         /\ browser' = [browser EXCEPT ![b].page = None]
         /\ earned' \in [DOMAIN Addrs -> [Secrets -> Nat]]
         /\ \A a \in DOMAIN Addrs, s \in Secrets : earned[a][s] <= earned'[a][s]
         /\ (p.nonce.challenge.n + 2) * p.ttl
              <= earned'[p.nonce.challenge.addr][p.nonce.challenge.secret]
<1>1. /\ p \in Pages /\ p # None /\ p.due = clock /\ file # None
      /\ req' = NewReq(b, p.uri, p.shape, p.nonce, p.from)
      /\ browser' = [browser EXCEPT ![b].page = None]
  BY DEF Types, Browser, Resubmit, Idle
<1>2. /\ p.uri \in DOMAIN Routes /\ p.shape \in Shapes /\ p.nonce \in Nonces
      /\ p.from \in ToSet(Locs) \cup {None} /\ p.ttl \in Nat
  BY <1>1, LifetimesPositive DEF Pages
<1>3. Sent(req', b, p.nonce, p.from)
  BY <1>1, <1>2, NewRequest
<1>4. PICK mac \in Macs : mac = p.nonce.challenge
  BY <1>2 DEF Nonces, Macs
<1>5. PICK a \in DOMAIN Addrs, s \in Secrets, n \in Nat :
        mac.addr = a /\ mac.secret = s /\ mac.n = n
  BY DEF Macs
<1>6. PICK w \in Nat : w = (n + 2) * p.ttl
  BY <1>2
<1>7. PICK m : m = Max({earned[a][s], w})
  OBVIOUS
<1>8. earned' = [earned EXCEPT ![a][s] = m]
  BY <1>4, <1>5, <1>6, <1>7 DEF Resubmit
<1>9. earned \in [DOMAIN Addrs -> [Secrets -> Nat]] /\ earned[a][s] \in Nat
  BY DEF Types
<1>10. m \in Nat /\ earned[a][s] <= m /\ w <= m
  BY <1>7, <1>9, MaxOfTwo
<1>11. /\ earned' \in [DOMAIN Addrs -> [Secrets -> Nat]]
       /\ earned'[a][s] = m
       /\ \A i \in DOMAIN Addrs, j \in Secrets : earned[i][j] <= earned'[i][j]
  BY <1>8, <1>9, <1>10
<1> QED
  BY <1>1, <1>3, <1>4, <1>5, <1>6, <1>10, <1>11

LEMMA TypesInit == Init => Types
<1> SUFFICES ASSUME Init PROVE Types
  OBVIOUS
<1>1. /\ clock \in Epoch .. MaxTime /\ reloads \in 0 .. MaxReloads
      /\ ~Busy
  BY PathAssumption DEF Init, Busy
<1>2. browser \in [Browsers -> Browser]
  <2>1. ASSUME NEW a \in DOMAIN Addrs PROVE Fresh(a) \in Browser
    BY DEF Fresh, Browser
  <2> QED
    BY <2>1 DEF Init
<1>3. earned \in [DOMAIN Addrs -> [Secrets -> Nat]]
  BY DEF Init
<1> QED
  BY <1>1, <1>2, <1>3 DEF Init, Types

LEMMA PhaseTypes ==
  ASSUME Types, PhaseStep, browser' \in [Browsers -> Browser]
  PROVE  Types'
BY DEF Types, PhaseStep, Busy

LEMMA QuietTypes ==
  ASSUME Types, PhaseStep, UNCHANGED browser
  PROVE  Types'
BY PhaseTypes DEF Types

LEMMA TypesStep ==
  ASSUME Types, [Next]_vars
  PROVE  Types'
<1>1. CASE Test
  BY <1>1 DEF Test, Busy, Types
<1>2. CASE EndTest
  BY <1>2 DEF EndTest, Busy, Types
<1>3. ASSUME NEW f \in DOMAIN Files, Configure(f) PROVE Types'
  <2>1. CASE Loaded[f].ok
    <3>1. f \in Accepted /\ ~Busy
      BY <1>3, <2>1 DEF Accepted, Configure
    <3>2. browser' \in [Browsers -> Browser]
      BY <1>3, <2>1, SpoiltBrowser DEF Configure, Types
    <3>3. reloads' \in 0 .. MaxReloads
      BY <1>3, <2>1, PathAssumption DEF Configure, Types
    <3> QED
      BY <1>3, <2>1, <3>1, <3>2, <3>3 DEF Configure, Busy, Types
  <2>2. CASE ~Loaded[f].ok
    BY <1>3, <2>2 DEF Configure, Busy, Types
  <2> QED
    BY <2>1, <2>2
<1>4. ASSUME NEW k, ServerRewrite(k) \/ LocationRewrite(k) PROVE Types'
  BY <1>4, RewriteStep, QuietTypes
<1>5. ASSUME NEW k, Observe(k) \/ Allow(k) \/ Blocked(k)
                    \/ \E held \in {"held", "closed", "error"} : Tarpitted(k, held)
      PROVE  Types'
  BY <1>5, JudgedStep, QuietTypes
<1>6. ASSUME NEW k, NEW faults, NEW s \in 1 .. MaxSolve, Challenged(k, faults, s)
      PROVE  Types'
  <2>1. PICK c : c = Conf[req.loc]
    OBVIOUS
  <2>2. PICK new \in Browser : browser' = [browser EXCEPT ![req.b] = new]
    BY <1>6, <2>1, ChallengeStep DEF Served
  <2>3. PhaseStep
    BY <1>6, <2>1, ChallengeStep
  <2>4. browser' \in [Browsers -> Browser]
    BY <2>2 DEF Types
  <2> QED
    BY <2>3, <2>4, PhaseTypes
<1>7. CASE Skip
  BY <1>7, SkipStep, QuietTypes
<1>8. CASE Redirect
  BY <1>8, RedirectStep, QuietTypes
<1>9. CASE Finish
  BY <1>9 DEF Finish, Busy, Types
<1>10. ASSUME NEW b \in Browsers, NEW u \in DOMAIN Routes, NEW q \in Shapes,
              Send(b, u, q)
       PROVE  Types'
  <2>1. Sent(req', b, None, None)
    BY <1>10, NewRequest DEF Send
  <2> QED
    BY <1>10, <2>1 DEF Send, Idle, Busy, Sent, Types
<1>11. ASSUME NEW b \in Browsers, Resubmit(b) PROVE Types'
  <2>1. /\ file # None /\ Request(req')
        /\ browser' = [browser EXCEPT ![b].page = None]
        /\ earned' \in [DOMAIN Addrs -> [Secrets -> Nat]]
    BY <1>11, ResubmitStep DEF Sent
  <2>2. browser' \in [Browsers -> Browser]
    BY <2>1 DEF Browser, Types
  <2> QED
    BY <1>11, <2>1, <2>2 DEF Resubmit, Busy, Types
<1>12. ASSUME NEW b \in Browsers, Leave(b) PROVE Types'
  <2>1. browser' \in [Browsers -> Browser]
    BY <1>12 DEF Leave, Browser, Types
  <2> QED
    BY <1>12, <2>1 DEF Leave, Busy, Types
<1>13. ASSUME NEW b \in Browsers, NEW a \in DOMAIN Addrs, Roam(b, a) PROVE Types'
  <2>1. PICK new : new = Spoilt(browser[b])
    OBVIOUS
  <2>2. new \in Browser
    BY <2>1, SpoiltBrowser DEF Types
  <2>3. [new EXCEPT !.addr = a] \in Browser
    BY <2>2 DEF Browser
  <2>4. browser' = [browser EXCEPT ![b] = [new EXCEPT !.addr = a]]
    BY <1>13, <2>1 DEF Roam
  <2>5. browser' \in [Browsers -> Browser]
    BY <2>3, <2>4 DEF Types
  <2> QED
    BY <1>13, <2>5 DEF Roam, Busy, Types
<1>14. CASE Tick
  <2>1. clock' \in Epoch .. MaxTime
    BY <1>14, PathAssumption DEF Tick, Types
  <2> QED
    BY <1>14, <2>1 DEF Tick, Busy, Types
<1>15. CASE UNCHANGED vars
  BY <1>15 DEF vars, Busy, Types
<1> QED
  BY <1>1, <1>2, <1>3, <1>4, <1>5, <1>6, <1>7, <1>8, <1>9, <1>10, <1>11, <1>12,
     <1>13, <1>14, <1>15 DEF Next, Preaccess

-----------------------------------------------------------------------------
(* Dated pages *)

LEMMA SameDate ==
  ASSUME NEW p, NEW q, SamePuzzle(p, q), NEW now, Dated(p, now)
  PROVE  Dated(q, now)
BY DEF SamePuzzle, Dated

LEMMA FreshDate ==
  ASSUME Types, file # None, Request(req), NEW c, c = Conf[req.loc],
         NEW a \in DOMAIN Addrs, NEW s \in 1 .. MaxSolve
  PROVE  Dated(NewPage(req, c, a, clock + s), clock)
<1>1. PICK now \in Epoch .. MaxTime : now = clock
  BY DEF Types
<1>2. now \in Epoch .. now /\ now <= now + s /\ now + s <= now + MaxSolve
  BY PathAssumption
<1>3. PICK p : p = NewPage(req, c, a, now + s)
  OBVIOUS
<1>4. /\ p.nonce.challenge.n = now \div p.ttl
      /\ p.due = now + s
  BY <1>1, <1>3 DEF NewPage, Solution, Challenge, Mac
<1> QED
  BY <1>1, <1>2, <1>3, <1>4 DEF Dated

LEMMA DatedStep ==
  ASSUME Types, PagesDated, [Next]_vars
  PROVE  PagesDated'
<1>1. CASE UNCHANGED <<browser, clock>>
  BY <1>1 DEF PagesDated
<1>2. ASSUME NEW f \in DOMAIN Files, Configure(f), Loaded[f].ok
      PROVE  PagesDated'
  <2>1. /\ \A b \in Browsers : browser[b] \in Browser
        /\ \A b \in Browsers : browser'[b] = Spoilt(browser[b])
        /\ clock' = clock
    BY <1>2 DEF Types, Configure
  <2> SUFFICES ASSUME NEW b \in Browsers, browser'[b].page # None
               PROVE  Dated(browser'[b].page, clock)
    BY <2>1 DEF PagesDated
  <2>2. browser[b].page # None /\ SamePuzzle(browser[b].page, browser'[b].page)
    BY <2>1, SpoiltBrowser
  <2> QED
    BY <2>2, SameDate DEF PagesDated
<1>3. ASSUME NEW k, NEW faults, NEW s \in 1 .. MaxSolve, Challenged(k, faults, s)
      PROVE  PagesDated'
  <2>1. PICK c : c = Conf[req.loc]
    OBVIOUS
  <2>2. Busy /\ Request(req) /\ file # None /\ clock' = clock /\ req.b \in Browsers
    BY <1>3, <2>1, ChallengeStep DEF PhaseStep, Request
  <2>3. PICK new, what :
          /\ Served(browser[req.b], new, what, c, s)
          /\ browser' = [browser EXCEPT ![req.b] = new]
    BY <1>3, <2>1, ChallengeStep
  <2>4. PICK br \in Browser : br = browser[req.b]
    BY <2>2 DEF Types
  <2>5. br.addr \in DOMAIN Addrs
    BY DEF Browser
  <2>6. Dated(NewPage(req, c, br.addr, clock + s), clock)
    BY <2>1, <2>2, <2>5, FreshDate
  <2>7. new.page = br.page \/ new.page = NewPage(req, c, br.addr, clock + s)
    BY <2>3, <2>4 DEF Served
  <2>8. new.page # None => Dated(new.page, clock)
    BY <2>2, <2>4, <2>6, <2>7 DEF PagesDated
  <2>9. \A b \in Browsers : browser'[b] = IF b = req.b THEN new ELSE browser[b]
    BY <2>3 DEF Types
  <2> QED
    BY <2>2, <2>8, <2>9 DEF PagesDated
<1>4. ASSUME NEW b \in Browsers, Resubmit(b) \/ Leave(b) PROVE PagesDated'
  <2>1. /\ \A x \in Browsers : browser'[x].page \in {browser[x].page, None}
        /\ clock' = clock
    BY <1>4, ZenonT(60) DEF Resubmit, Leave, Types, Browser
  <2> QED
    BY <2>1 DEF PagesDated
<1>5. ASSUME NEW b \in Browsers, NEW a \in DOMAIN Addrs, Roam(b, a)
      PROVE  PagesDated'
  <2>1. PICK new : new = Spoilt(browser[b])
    OBVIOUS
  <2>2. /\ new \in Browser
        /\ new.page # None =>
             browser[b].page # None /\ SamePuzzle(browser[b].page, new.page)
    BY <2>1, SpoiltBrowser DEF Types
  <2>3. new.page # None => Dated(new.page, clock)
    BY <2>2, SameDate DEF PagesDated
  <2>4. /\ browser' = [browser EXCEPT ![b] = [new EXCEPT !.addr = a]]
        /\ clock' = clock
    BY <1>5, <2>1 DEF Roam
  <2>5. \A x \in Browsers :
          browser'[x].page = IF x = b THEN new.page ELSE browser[x].page
    BY <2>2, <2>4 DEF Types, Browser
  <2> QED
    BY <2>3, <2>4, <2>5 DEF PagesDated
<1>6. CASE Tick
  <2>1. PICK now \in Epoch .. MaxTime : now = clock
    BY DEF Types
  <2>2. clock' = now + 1 /\ UNCHANGED browser
    BY <1>6, <2>1 DEF Tick
  <2> SUFFICES ASSUME NEW b \in Browsers, browser[b].page # None
               PROVE  Dated(browser[b].page, now + 1)
    BY <2>2 DEF PagesDated
  <2>3. PICK p \in Pages : p = browser[b].page
    BY DEF Types, Browser
  <2>4. p.due \in Nat /\ p.due > now
    BY <1>6, <2>1, <2>3 DEF Tick, Pages
  <2>5. PICK t \in Epoch .. now : /\ p.nonce.challenge.n = t \div p.ttl
                                  /\ p.due <= t + MaxSolve
    BY <2>1, <2>3 DEF PagesDated, Dated
  <2>6. t \in Epoch .. now + 1 /\ now + 1 <= p.due
    BY <2>1, <2>4, PathAssumption
  <2> QED
    BY <2>3, <2>5, <2>6 DEF Dated
<1>7. \/ UNCHANGED <<browser, clock>>
      \/ \E f \in DOMAIN Files : Configure(f) /\ Loaded[f].ok
      \/ \E k, faults : \E s \in 1 .. MaxSolve : Challenged(k, faults, s)
      \/ \E b \in Browsers : Resubmit(b) \/ Leave(b)
      \/ \E b \in Browsers, a \in DOMAIN Addrs : Roam(b, a)
      \/ Tick
  BY DEF Next, Preaccess, vars, Test, EndTest, Configure, ServerRewrite,
         LocationRewrite, Observe, Allow, Tarpitted, Blocked, Skip, Redirect,
         Finish, Send
<1> QED
  BY <1>1, <1>2, <1>3, <1>4, <1>5, <1>6, <1>7

LEMMA DatedInit == Init => PagesDated
<1> SUFFICES ASSUME Init, NEW b \in Browsers
             PROVE  browser[b].page = None
  BY DEF PagesDated
<1>1. \A a \in DOMAIN Addrs : Fresh(a).page = None
  BY DEF Fresh
<1> QED
  BY <1>1 DEF Init

LEMMA TypesImply == Types /\ PagesDated => TypeOK
<1> SUFFICES ASSUME Types, PagesDated PROVE TypeOK
  OBVIOUS
<1>1. ASSUME NEW b \in Browsers
      PROVE  /\ browser[b].addr \in DOMAIN Addrs
             /\ browser[b].tries \in Nat
             /\ browser[b].page # None => browser[b].page.due >= clock
  <2>1. /\ browser[b] \in Browser
        /\ browser[b].page # None => browser[b].page \in Pages
    BY DEF Types, Browser
  <2>2. browser[b].page # None =>
          browser[b].page.due \in Nat /\ clock <= browser[b].page.due
    BY <2>1 DEF PagesDated, Dated, Pages
  <2>3. clock \in Nat
    BY PathAssumption DEF Types
  <2> QED
    BY <2>1, <2>2, <2>3 DEF Browser
<1> QED
  BY <1>1 DEF Types, TypeOK, Request

\* Every variable keeps its type, whatever the files, the routes and the
\* browsers: a request is served by a location of a file that loaded, and no
\* page is overdue.
THEOREM PathTypeCorrect == Spec => []TypeOK
<1>1. Init => Types /\ PagesDated
  BY TypesInit, DatedInit
<1>2. Types /\ PagesDated /\ [Next]_vars => (Types /\ PagesDated)'
  BY TypesStep, DatedStep
<1> QED
  BY <1>1, <1>2, TypesImply, PTL DEF Spec

-----------------------------------------------------------------------------
(* Admission is earned *)

\* No challenge of a page can be mistaken, within the time that a browser takes,
\* for one of a location whose cookies last longer: a challenge names the number
\* of its period and not the length.
PeriodsApart ==
  \A p, c \in Lifetimes, t, now \in Epoch .. MaxTime :
    t <= now /\ now <= t + MaxSolve /\ t \div p = now \div c => c <= p

\* What a solution is worth covers the cookie that it buys.
LEMMA SolutionCovers ==
  ASSUME PeriodsApart, NEW now \in Epoch .. MaxTime, NEW c \in Lifetimes,
         NEW record, NEW a, NEW s, record[a][s] \in Nat,
         NEW nonce, nonce.challenge = Mac(s, a, now \div c),
         NonceEarned(nonce, now, record)
  PROVE  now + c < record[a][s]
<1>1. PICK n : n = now \div c
  OBVIOUS
<1>2. /\ nonce.challenge.n = n /\ nonce.challenge.addr = a
      /\ nonce.challenge.secret = s
  BY <1>1 DEF Mac
<1>3. PICK ttl \in Lifetimes, t \in Epoch .. now :
        n = t \div ttl /\ now <= t + MaxSolve /\ (n + 2) * ttl <= record[a][s]
  BY <1>2 DEF NonceEarned
<1>4. /\ c \in Nat \ {0} /\ ttl \in Nat \ {0} /\ now \in Nat
      /\ t \in Epoch .. MaxTime /\ t <= now
  BY LifetimesPositive, PathAssumption
<1>5. c <= ttl
  BY <1>1, <1>3, <1>4 DEF PeriodsApart
<1>6. n \in Nat /\ now < (n + 1) * c
  BY <1>1, <1>4, Period
<1>7. PICK m \in Nat : m = n + 2
  BY <1>6
<1>8. m * c <= m * ttl
  BY <1>4, <1>5, SMT
<1>9. (n + 1) * c + c = m * c
  BY <1>4, <1>6, <1>7, SMT
<1>10. PICK u \in Nat, v \in Nat, w \in Nat :
         u = (n + 1) * c /\ v = m * c /\ w = m * ttl
  BY <1>4, <1>6, SMT
<1> QED
  BY <1>3, <1>4, <1>6, <1>7, <1>8, <1>9, <1>10

\* It is enough that lifetimes are short against the time since the epoch.
LEMMA ShortLifetimes ==
  ASSUME \A d \in Lifetimes : d * (d + MaxSolve) <= Epoch
  PROVE  PeriodsApart
<1> SUFFICES ASSUME NEW p \in Lifetimes, NEW c \in Lifetimes,
                    NEW t \in Epoch .. MaxTime, NEW now \in Epoch .. MaxTime,
                    t <= now, now <= t + MaxSolve, t \div p = now \div c,
                    ~(c <= p)
             PROVE  FALSE
  BY DEF PeriodsApart
<1>1. /\ p \in Nat \ {0} /\ c \in Nat \ {0} /\ t \in Nat /\ now \in Nat
      /\ MaxSolve \in Nat /\ Epoch \in Nat /\ Epoch <= t
  BY LifetimesPositive, PathAssumption
<1>2. PICK n \in Nat : n = t \div p /\ t < (n + 1) * p
  BY <1>1, Period
<1>3. n * c <= now
  BY <1>1, <1>2, Period
<1>4. n * (p + 1) <= n * c
  BY <1>1, SMT
<1>5. n * p + n < n * p + p + MaxSolve
  <2>1. PICK x \in Nat : x = n * p
    BY <1>1
  <2>2. n * (p + 1) = x + n /\ (n + 1) * p = x + p
    BY <1>1, <2>1, SMT
  <2>3. n * c \in Nat
    BY <1>1
  <2> QED
    BY <1>1, <1>2, <1>3, <1>4, <2>1, <2>2, <2>3
<1>6. n + 1 <= p + MaxSolve
  <2>1. n * p \in Nat
    BY <1>1
  <2> QED
    BY <1>1, <1>5, <2>1
<1>7. p * (n + 1) <= p * (p + MaxSolve)
  BY <1>1, <1>6, SMT
<1>8. t < p * (p + MaxSolve)
  <2>1. PICK x \in Nat, y \in Nat : x = p * (n + 1) /\ y = p * (p + MaxSolve)
    BY <1>1
  <2>2. (n + 1) * p = x
    BY <1>1, <2>1, SMT
  <2> QED
    BY <1>1, <1>2, <1>7, <2>1, <2>2
<1>9. p * (p + MaxSolve) \in Nat /\ p * (p + MaxSolve) <= Epoch
  BY <1>1
<1> QED
  BY <1>1, <1>8, <1>9

\* The phases carry nonce and cookie along.
LEMMA PhaseEarned ==
  ASSUME PhaseStep, NoncesEarned, Busy => CookieEarned(req.cookie, earned)
  PROVE  NoncesEarned' /\ (Busy => CookieEarned(req.cookie, earned))'
BY DEF PhaseStep, SameSender, NoncesEarned, Busy

\* Cookies of the browsers stay as good as they were.
LEMMA QuietEarned ==
  ASSUME Types, CookiesEarned, NEW b \in Browsers,
         NEW record \in [DOMAIN Addrs -> [Secrets -> Nat]],
         \A a \in DOMAIN Addrs, s \in Secrets : earned[a][s] <= record[a][s]
  PROVE  CookieEarned(browser[b].cookie, record)
<1> SUFFICES ASSUME browser[b].cookie # None
             PROVE  CookieEarned(browser[b].cookie, record)
  BY DEF CookieEarned
<1>1. PICK w \in Cookies : w = browser[b].cookie
  BY DEF Types, Browser
<1>2. /\ w.expiry \in Nat /\ w.mac.addr \in DOMAIN Addrs
      /\ w.mac.secret \in Secrets
  BY DEF Cookies, Macs
<1>3. w.expiry <= earned[w.mac.addr][w.mac.secret]
  BY <1>1 DEF CookiesEarned, CookieEarned
<1>4. /\ earned[w.mac.addr][w.mac.secret] \in Nat
      /\ record[w.mac.addr][w.mac.secret] \in Nat
      /\ earned[w.mac.addr][w.mac.secret] <= record[w.mac.addr][w.mac.secret]
  BY <1>2 DEF Types
<1>5. w.expiry <= record[w.mac.addr][w.mac.secret]
  BY <1>2, <1>3, <1>4
<1> QED
  BY <1>1, <1>5 DEF CookieEarned

\* The step at which a request gets through.
LEMMA ChallengeEarned ==
  ASSUME PeriodsApart, EarnedInv, NEW k, NEW faults, NEW s \in 1 .. MaxSolve,
         Challenged(k, faults, s)
  PROVE  (NoncesEarned /\ CookiesEarned /\ AdmissionEarned)'
<1>1. Types /\ NoncesEarned /\ CookiesEarned
  BY DEF EarnedInv
<1>2. PICK c : c = Conf[req.loc]
  OBVIOUS
<1>3. Busy /\ Request(req) /\ file # None /\ PhaseStep /\ req.b \in Browsers
  BY <1>1, <1>2, ChallengeStep DEF Request
<1>4. PICK br \in Browser, a \in DOMAIN Addrs : br = browser[req.b] /\ a = br.addr
  BY <1>1, <1>3 DEF Types, Browser
<1>5. PICK what, new :
        /\ what = Dispatch(c, a, req.cookie, req.nonce, clock, faults)
        /\ HandlerStep(GetCtx(req, req.loc, k), what)
        /\ Served(br, new, what, c, s)
        /\ browser' = [browser EXCEPT ![req.b] = new]
  BY <1>1, <1>2, <1>4, ChallengeStep
<1>6. /\ clock' = clock /\ file' = file /\ earned' = earned
      /\ req'.b = req.b /\ req'.loc = req.loc /\ req'.result = what
  BY <1>3, <1>5 DEF PhaseStep, SameSender, HandlerStep
<1>7. PICK now \in Epoch .. MaxTime : now = clock
  BY <1>1 DEF Types
<1>8. /\ now \in Nat /\ c.pow_secret \in Secrets /\ c.pow_ttl \in Lifetimes
      /\ c.pow_ttl \in Nat \ {0}
  <2>1. now \in Nat
    BY PathAssumption
  <2>2. file \in Accepted
    BY <1>1, <1>3 DEF Types
  <2>3. req.loc \in ToSet(Locs)
    BY <1>3 DEF Request
  <2>4. c.pow_secret \in Secrets /\ c.pow_ttl \in Lifetimes
    BY <1>2, <2>2, <2>3, ConfRanges
  <2> QED
    BY <2>1, <2>4, LifetimesPositive
<1>9. PICK e \in Nat : e = earned[a][c.pow_secret]
  BY <1>1, <1>8 DEF Types
<1>10. what = "solved" => now + c.pow_ttl < e
  <2> SUFFICES ASSUME what = "solved" PROVE now + c.pow_ttl < e
    OBVIOUS
  <2>1. Solves(c, a, req.nonce, clock)
    BY <1>5 DEF Dispatch
  <2>2. /\ req.nonce # None
        /\ req.nonce.challenge = Mac(c.pow_secret, a, now \div c.pow_ttl)
    BY <1>7, <2>1 DEF Solves, Challenge
  <2>3. NonceEarned(req.nonce, now, earned)
    BY <1>1, <1>3, <1>7, <2>2 DEF NoncesEarned
  <2> QED
    BY <1>8, <1>9, <2>2, <2>3, SolutionCovers
<1>11. what = "cookie" => now < e
  <2> SUFFICES ASSUME what = "cookie" PROVE now < e
    OBVIOUS
  <2>1. CookieValid(c, a, req.cookie, clock)
    BY <1>5 DEF Dispatch
  <2>2. PICK w \in Cookies : w = req.cookie /\ w # None
    BY <1>3, <2>1 DEF CookieValid, Request
  <2>3. w.expiry > now /\ w.mac = Mac(c.pow_secret, a, w.expiry)
    BY <1>7, <2>1, <2>2 DEF CookieValid, CookieMac
  <2>4. w.expiry \in Nat /\ w.mac.addr = a /\ w.mac.secret = c.pow_secret
    BY <2>3 DEF Cookies, Mac
  <2>5. w.expiry <= e
    BY <1>1, <1>3, <1>9, <2>2, <2>4 DEF CookiesEarned, CookieEarned
  <2> QED
    BY <1>8, <2>3, <2>4, <2>5
<1>12. AdmissionEarned'
  <2> SUFFICES ASSUME what \in {"cookie", "solved"}
               PROVE  clock' < (earned[browser[req.b].addr][Conf[req.loc].pow_secret])'
    BY <1>6 DEF AdmissionEarned
  <2>1. now < e
    BY <1>8, <1>10, <1>11
  <2>2. browser'[req.b].addr = a
    BY <1>1, <1>3, <1>4, <1>5 DEF Types, Served
  <2>3. Conf' = Conf
    BY <1>6 DEF Conf
  <2> QED
    BY <1>2, <1>6, <1>7, <1>9, <2>1, <2>2, <2>3
<1>13. NoncesEarned' /\ (Busy => CookieEarned(req.cookie, earned))'
  BY <1>1, <1>3, PhaseEarned DEF CookiesEarned
<1>14. CookieEarned(new.cookie, earned)
  <2>1. CookieEarned(br.cookie, earned)
    BY <1>1, <1>3, <1>4 DEF CookiesEarned
  <2>2. CASE new.cookie = br.cookie
    BY <2>1, <2>2
  <2>3. CASE what = "solved" /\ new.cookie = Cookie(c, a, clock)
    <3>1. /\ new.cookie.expiry = now + c.pow_ttl
          /\ new.cookie.mac.addr = a /\ new.cookie.mac.secret = c.pow_secret
      BY <1>7, <2>3 DEF Cookie, CookieMac, Mac
    <3>2. now + c.pow_ttl <= e
      BY <1>8, <1>10, <2>3
    <3> QED
      BY <1>9, <3>1, <3>2 DEF CookieEarned
  <2> QED
    BY <1>4, <1>5, <2>2, <2>3 DEF Served
<1>15. \A b \in Browsers : CookieEarned(browser'[b].cookie, earned)
  <2>1. \A b \in Browsers : browser'[b] = IF b = req.b THEN new ELSE browser[b]
    BY <1>1, <1>5 DEF Types
  <2> QED
    BY <1>1, <1>14, <2>1 DEF CookiesEarned
<1>16. CookiesEarned'
  BY <1>6, <1>13, <1>15 DEF CookiesEarned
<1> QED
  BY <1>12, <1>13, <1>16

LEMMA EarnedStep ==
  ASSUME PeriodsApart, EarnedInv, [Next]_vars
  PROVE  EarnedInv'
<1>1. Types /\ PagesDated /\ NoncesEarned /\ CookiesEarned /\ AdmissionEarned
  BY DEF EarnedInv
<1>2. Types' /\ PagesDated'
  BY <1>1, TypesStep, DatedStep
<1> DEFINE Goal == NoncesEarned' /\ CookiesEarned' /\ AdmissionEarned'
<1> SUFFICES Goal
  BY <1>2 DEF EarnedInv
<1>3. CASE UNCHANGED <<clock, file, browser, req, earned>>
  BY <1>1, <1>3 DEF NoncesEarned, CookiesEarned, AdmissionEarned, Judged, Busy,
                    Conf
<1>4. ASSUME PhaseStep, UNCHANGED browser,
             ~(req'.phase \in {"content", "log"}
               /\ req'.result \in {"cookie", "solved"})
      PROVE  Goal
  <2>1. NoncesEarned' /\ (Busy => CookieEarned(req.cookie, earned))'
    BY <1>1, <1>4, PhaseEarned DEF CookiesEarned
  <2>2. CookiesEarned'
    BY <1>1, <1>4, <2>1 DEF CookiesEarned, PhaseStep
  <2>3. AdmissionEarned'
    BY <1>4 DEF AdmissionEarned, Judged
  <2> QED
    BY <2>1, <2>2, <2>3
<1>5. ASSUME ~Busy', UNCHANGED earned,
             \A b \in Browsers : browser'[b].cookie = browser[b].cookie
      PROVE  Goal
  BY <1>1, <1>5 DEF NoncesEarned, CookiesEarned, AdmissionEarned, Judged
<1>6. ASSUME NEW k, ServerRewrite(k) \/ LocationRewrite(k) PROVE Goal
  BY <1>1, <1>4, <1>6, RewriteStep
<1>7. ASSUME NEW k, Observe(k) \/ Allow(k) \/ Blocked(k)
                    \/ \E held \in {"held", "closed", "error"} : Tarpitted(k, held)
      PROVE  Goal
  <2>1. PICK how \in Outcomes : HandlerStep(GetCtx(req, req.loc, k), how)
    BY <1>1, <1>7, JudgedStep
  <2>2. req'.result \notin {"cookie", "solved"}
    BY <2>1 DEF HandlerStep, Outcomes
  <2> QED
    BY <1>1, <1>4, <1>7, <2>2, JudgedStep
<1>8. ASSUME NEW k, NEW faults, NEW s \in 1 .. MaxSolve, Challenged(k, faults, s)
      PROVE  Goal
  BY <1>8, ChallengeEarned
<1>9. CASE Skip
  <2>1. req'.result = "unjudged"
    BY <1>1, <1>9, SkipStep DEF HandlerStep
  <2> QED
    BY <1>1, <1>4, <1>9, <2>1, SkipStep
<1>10. CASE Redirect
  BY <1>1, <1>4, <1>10, RedirectStep
<1>11. ASSUME NEW b \in Browsers, NEW u \in DOMAIN Routes, NEW q \in Shapes,
              Send(b, u, q)
       PROVE  Goal
  <2>1. /\ req'.cookie = browser[b].cookie /\ req'.nonce = None
        /\ req'.phase = "server rewrite"
    <3>1. Sent(req', b, None, None)
      BY <1>1, <1>11, NewRequest DEF Send
    <3> QED
      BY <3>1 DEF Sent
  <2>2. UNCHANGED <<browser, earned>>
    BY <1>11 DEF Send
  <2> QED
    BY <1>1, <2>1, <2>2 DEF NoncesEarned, CookiesEarned, AdmissionEarned, Judged
<1>12. ASSUME NEW b \in Browsers, Resubmit(b) PROVE Goal
  <2>1. PICK p : p = browser[b].page
    OBVIOUS
  <2>2. /\ p \in Pages /\ p # None /\ p.due = clock
        /\ Sent(req', b, p.nonce, p.from)
        /\ browser' = [browser EXCEPT ![b].page = None]
        /\ earned' \in [DOMAIN Addrs -> [Secrets -> Nat]]
        /\ \A a \in DOMAIN Addrs, s \in Secrets : earned[a][s] <= earned'[a][s]
        /\ (p.nonce.challenge.n + 2) * p.ttl
             <= earned'[p.nonce.challenge.addr][p.nonce.challenge.secret]
    BY <1>1, <1>12, <2>1, ResubmitStep
  <2>3. \A x \in Browsers : CookieEarned(browser[x].cookie, earned')
    BY <1>1, <2>2, QuietEarned
  <2>4. \A x \in Browsers : browser'[x].cookie = browser[x].cookie
    BY <1>1, <2>2 DEF Types, Browser
  <2>5. CookiesEarned'
    BY <2>2, <2>3, <2>4 DEF CookiesEarned, Sent
  <2>6. PICK t \in Epoch .. clock :
          p.nonce.challenge.n = t \div p.ttl /\ clock <= t + MaxSolve
    BY <1>1, <2>1, <2>2 DEF PagesDated, Dated
  <2>7. p.ttl \in Lifetimes
    BY <2>2 DEF Pages
  <2>8. NonceEarned(p.nonce, clock, earned')
    BY <2>2, <2>6, <2>7 DEF NonceEarned
  <2>9. NoncesEarned'
    BY <1>12, <2>2, <2>8 DEF NoncesEarned, Sent, Resubmit
  <2>10. AdmissionEarned'
    BY <2>2 DEF AdmissionEarned, Judged, Sent
  <2> QED
    BY <2>5, <2>9, <2>10
<1>13. CASE Finish
  BY <1>5, <1>13 DEF Finish, Busy
<1>14. ASSUME NEW f \in DOMAIN Files, Configure(f) PROVE Goal
  <2>1. \A b \in Browsers : browser'[b].cookie = browser[b].cookie
    <3>1. CASE Loaded[f].ok
      <4>1. ASSUME NEW b \in Browsers
            PROVE  browser'[b].cookie = browser[b].cookie
        <5>1. browser[b] \in Browser /\ browser'[b] = Spoilt(browser[b])
          BY <1>1, <1>14, <3>1 DEF Configure, Types
        <5> QED
          BY <5>1, SpoiltBrowser
      <4> QED
        BY <4>1
    <3>2. CASE ~Loaded[f].ok
      BY <1>14, <3>2 DEF Configure
    <3> QED
      BY <3>1, <3>2
  <2> QED
    BY <1>5, <1>14, <2>1 DEF Configure, Busy
<1>15. ASSUME NEW b \in Browsers, Leave(b) PROVE Goal
  <2>1. \A x \in Browsers : browser'[x].cookie = browser[x].cookie
    BY <1>1, <1>15 DEF Leave, Types, Browser
  <2> QED
    BY <1>5, <1>15, <2>1 DEF Leave, Idle, Busy
<1>16. ASSUME NEW b \in Browsers, NEW a \in DOMAIN Addrs, Roam(b, a) PROVE Goal
  <2>1. PICK new : new = Spoilt(browser[b])
    OBVIOUS
  <2>2. new \in Browser /\ new.cookie = browser[b].cookie
    BY <1>1, <2>1, SpoiltBrowser DEF Types
  <2>3. browser' = [browser EXCEPT ![b] = [new EXCEPT !.addr = a]]
    BY <1>16, <2>1 DEF Roam
  <2>4. \A x \in Browsers : browser'[x].cookie = browser[x].cookie
    BY <1>1, <2>2, <2>3 DEF Types, Browser
  <2> QED
    BY <1>5, <1>16, <2>4 DEF Roam, Idle, Busy
<1>17. CASE Tick
  BY <1>5, <1>17 DEF Tick, Idle, Busy
<1>18. \/ UNCHANGED <<clock, file, browser, req, earned>>
       \/ \E k : \/ ServerRewrite(k) \/ LocationRewrite(k)
                 \/ Observe(k) \/ Allow(k) \/ Blocked(k)
                 \/ \E held \in {"held", "closed", "error"} : Tarpitted(k, held)
                 \/ \E faults : \E s \in 1 .. MaxSolve : Challenged(k, faults, s)
       \/ Skip \/ Redirect \/ Finish \/ Tick
       \/ \E f \in DOMAIN Files : Configure(f)
       \/ \E b \in Browsers : \/ \E u \in DOMAIN Routes, q \in Shapes : Send(b, u, q)
                              \/ Resubmit(b) \/ Leave(b)
                              \/ \E a \in DOMAIN Addrs : Roam(b, a)
  BY DEF Next, Preaccess, vars, Test, EndTest
<1> QED
  BY <1>3, <1>6, <1>7, <1>8, <1>9, <1>10, <1>11, <1>12, <1>13, <1>14, <1>15,
     <1>16, <1>17, <1>18

\* sentinel_pow.c: a forged or garbage cookie can never bypass.  For any files,
\* secrets, lifetimes, addresses and times, over reloads, redirects and every
\* fail-open path: whom sentinel_pow_dispatch lets through with a cookie or a
\* nonce has solved a challenge of the address he has now, under the secret in
\* force, within two lifetimes.
THEOREM AdmissionIsEarned ==
  ASSUME PeriodsApart
  PROVE  Spec => []AdmissionEarned
<1>1. Init => EarnedInv
  <2> SUFFICES ASSUME Init PROVE EarnedInv
    OBVIOUS
  <2>1. Types /\ PagesDated /\ ~Busy
    BY TypesInit, DatedInit DEF Init, Busy
  <2>2. \A b \in Browsers : browser[b].cookie = None
    <3>1. \A a \in DOMAIN Addrs : Fresh(a).cookie = None
      BY DEF Fresh
    <3> QED
      BY <3>1 DEF Init
  <2> QED
    BY <2>1, <2>2 DEF EarnedInv, NoncesEarned, CookiesEarned, CookieEarned,
                      AdmissionEarned, Judged
<1>2. EarnedInv /\ [Next]_vars => EarnedInv'
  BY EarnedStep
<1>3. EarnedInv => AdmissionEarned
  BY DEF EarnedInv
<1> QED
  BY <1>1, <1>2, <1>3, PTL DEF Spec

-----------------------------------------------------------------------------
(* A location enforces its own verdict *)

\* The server and the locations are blocks, and None is not.
LEMMA Blocks == "server" # None /\ None \notin ToSet(Locs)
<1>1. Locs \in Seq(STRING)
  BY ConfigAssumption
<1>2. 1 \in DOMAIN MergeOrder /\ MergeOrder[1] = "server"
  BY <1>1 DEF MergeOrder
<1>3. "server" \in ToSet(MergeOrder)
  BY <1>2 DEF ToSet
<1> QED
  BY <1>3, LocIsBlock, PathAssumption

\* The first call of ngx_sentinel_get_ctx evaluates, later ones do not.
LEMMA FirstCtx ==
  ASSUME NEW r, NEW l, NEW k, r.ctx = NoCtx, l # None
  PROVE  JudgedBy(GetCtx(r, l, k), <<l, r.path>>)
<1>1. PICK x : x = GetCtx(r, l, k)
  OBVIOUS
<1>2. PICK v : x = [verdict |-> v, by |-> l, path |-> r.path]
  BY <1>1 DEF GetCtx
<1>3. x.by = l /\ x.path = r.path
  BY <1>2
<1>4. NoCtx.by = None
  BY DEF NoCtx
<1> QED
  BY <1>1, <1>3, <1>4 DEF JudgedBy

LEMMA KeptCtx ==
  ASSUME NEW r, NEW l, NEW k, NEW p, JudgedBy(r.ctx, p)
  PROVE  GetCtx(r, l, k) = r.ctx
BY DEF JudgedBy, GetCtx

\* At the handler, the verdict is that of the first to ask.
LEMMA HandlerCtx ==
  ASSUME NEW r, NEW k, OnWay(r), r.phase = "preaccess", r.loc \in ToSet(Locs)
  PROVE  JudgedBy(GetCtx(r, r.loc, k), FirstToAsk(r))
<1>1. CASE ReadOnWay(r)
  BY <1>1, KeptCtx DEF OnWay
<1>2. CASE ~ReadOnWay(r)
  <2>1. r.ctx = NoCtx
    BY <1>2 DEF OnWay
  <2>2. FirstToAsk(r) = <<r.loc, r.path>>
    BY <1>2 DEF FirstToAsk, ReadOnWay
  <2> QED
    BY <2>1, <2>2, FirstCtx, Blocks
<1> QED
  BY <1>1, <1>2

\* The server's rewrite rules.
LEMMA ServerOnWay ==
  ASSUME Types, CtxOnWay, NEW k, ServerRewrite(k)
  PROVE  OnWay(req') /\ req'.phase = "location"
<1>1. Busy /\ Request(req) /\ req.phase = "server rewrite" /\ OnWay(req)
  BY DEF Types, CtxOnWay, ServerRewrite
<1>2. PICK x :
        /\ x = IF "server" \in Routes[req.uri].reads
               THEN GetCtx(req, "server", k) ELSE req.ctx
        /\ req' = [req EXCEPT !.phase = "location", !.ctx = x]
  BY DEF ServerRewrite
<1>3. /\ req'.phase = "location" /\ req'.ctx = x /\ req'.uri = req.uri
      /\ req'.path = req.path /\ req'.loc = req.loc
      /\ req'.redirected = req.redirected
  BY <1>1, <1>2 DEF Request
<1>4. /\ req.ctx = NoCtx /\ req.path = Entered(req)
      /\ ~req.redirected => req.loc = Routes[req.uri].via
  BY <1>1 DEF OnWay
<1>5. Entered(req') = Entered(req)
  BY <1>3 DEF Entered
<1>6. IF "server" \in Routes[req.uri].reads
      THEN JudgedBy(x, FirstToAsk(req')) ELSE x = NoCtx
  <2>1. CASE "server" \in Routes[req.uri].reads
    <3>1. JudgedBy(x, <<"server", Entered(req)>>)
      BY <1>2, <1>4, <2>1, FirstCtx, Blocks
    <3>2. FirstToAsk(req') = <<"server", Entered(req)>>
      BY <1>3, <2>1 DEF FirstToAsk, Entered
    <3> QED
      BY <2>1, <3>1, <3>2
  <2>2. CASE "server" \notin Routes[req.uri].reads
    BY <1>2, <1>4, <2>2
  <2> QED
    BY <2>1, <2>2
<1> QED
  BY <1>3, <1>4, <1>5, <1>6 DEF OnWay

\* Those of the location.
LEMMA LocationOnWay ==
  ASSUME Types, CtxOnWay, NEW k, LocationRewrite(k)
  PROVE  OnWay(req') /\ req'.phase = "preaccess"
<1>1. Busy /\ Request(req) /\ req.phase = "location" /\ OnWay(req)
  BY DEF Types, CtxOnWay, LocationRewrite
<1>2. PICK x, l, p :
        /\ x = IF "location" \in Routes[req.uri].reads /\ ~req.redirected
               THEN GetCtx(req, req.loc, k) ELSE req.ctx
        /\ req' = [req EXCEPT !.phase = "preaccess", !.ctx = x, !.loc = l,
                              !.path = p]
  BY DEF LocationRewrite
<1>3. /\ req'.phase = "preaccess" /\ req'.ctx = x /\ req'.uri = req.uri
      /\ req'.redirected = req.redirected
  BY <1>1, <1>2 DEF Request
<1>4. /\ req.path = Entered(req)
      /\ ~req.redirected => req.loc = Routes[req.uri].via
      /\ IF "server" \in Routes[req.uri].reads
         THEN JudgedBy(req.ctx, FirstToAsk(req)) ELSE req.ctx = NoCtx
  BY <1>1 DEF OnWay
<1>5. ReadOnWay(req') <=> ReadOnWay(req)
  BY <1>3 DEF ReadOnWay
<1>6. CASE "server" \in Routes[req.uri].reads
  <2>1. x = req.ctx
    BY <1>2, <1>4, <1>6, KeptCtx
  <2>2. FirstToAsk(req') = FirstToAsk(req)
    BY <1>3, <1>6 DEF FirstToAsk
  <2>3. ReadOnWay(req') /\ JudgedBy(x, FirstToAsk(req'))
    BY <1>4, <1>5, <1>6, <2>1, <2>2 DEF ReadOnWay
  <2> QED
    BY <1>3, <2>3 DEF OnWay
<1>7. CASE "server" \notin Routes[req.uri].reads /\ ReadOnWay(req)
  <2>1. "location" \in Routes[req.uri].reads /\ ~req.redirected
    BY <1>7 DEF ReadOnWay
  <2>2. /\ req.loc = Routes[req.uri].via
        /\ req.path = Routes[req.uri].viaPath
        /\ req.ctx = NoCtx
    BY <1>4, <1>7, <2>1 DEF Entered
  <2>3. JudgedBy(x, <<req.loc, req.path>>)
    <3>1. req.loc # None
      BY <1>1, Blocks DEF Request
    <3> QED
      BY <1>2, <2>1, <2>2, <3>1, FirstCtx
  <2>4. FirstToAsk(req') = <<req.loc, req.path>>
    BY <1>3, <1>7, <2>1, <2>2 DEF FirstToAsk
  <2> QED
    BY <1>3, <1>5, <1>7, <2>3, <2>4 DEF OnWay
<1>8. CASE ~ReadOnWay(req)
  <2>1. x = NoCtx
    BY <1>2, <1>4, <1>8 DEF ReadOnWay
  <2> QED
    BY <1>3, <1>5, <1>8, <2>1 DEF OnWay
<1> QED
  BY <1>6, <1>7, <1>8

LEMMA OwnStep ==
  ASSUME OwnInv, [Next]_vars
  PROVE  OwnInv'
<1>1. Types /\ CtxOnWay /\ VerdictOwn
  BY DEF OwnInv
<1>2. Types'
  BY <1>1, TypesStep
<1> SUFFICES (CtxOnWay /\ VerdictOwn)'
  BY <1>2 DEF OwnInv
<1>3. CASE UNCHANGED req
  BY <1>1, <1>3 DEF CtxOnWay, VerdictOwn, Judged, Busy
<1>4. ASSUME OnWay(req'), req'.phase \notin {"content", "log"}
      PROVE  (CtxOnWay /\ VerdictOwn)'
  BY <1>4 DEF CtxOnWay, VerdictOwn, Judged
<1>5. ASSUME NEW x, NEW how, PhaseStep, HandlerStep(x, how),
             how = "unjudged" \/ (\E k : x = GetCtx(req, req.loc, k))
      PROVE  (CtxOnWay /\ VerdictOwn)'
  <2>1. /\ req'.phase \in {"content", "log"} /\ req'.ctx = x
        /\ req'.result = how /\ req'.loc = req.loc /\ req'.path = req.path
        /\ req'.redirected = req.redirected
        /\ req'.uri = req.uri /\ req.phase = "preaccess"
    BY <1>5 DEF PhaseStep, SameSender, HandlerStep
  <2>2. OnWay(req) /\ req.loc \in ToSet(Locs)
    BY <1>1, <1>5 DEF CtxOnWay, PhaseStep, Types, Request
  <2>3. how # "unjudged" => JudgedBy(x, FirstToAsk(req))
    BY <1>5, <2>1, <2>2, HandlerCtx
  <2>4. FirstToAsk(req') = FirstToAsk(req)
    BY <2>1 DEF FirstToAsk
  <2>5. OnWay(req')
    BY <2>1 DEF OnWay
  <2> QED
    BY <2>1, <2>3, <2>4, <2>5 DEF CtxOnWay, VerdictOwn, Judged, JudgedBy
<1>6. ASSUME NEW k, ServerRewrite(k) \/ LocationRewrite(k)
      PROVE  (CtxOnWay /\ VerdictOwn)'
  BY <1>1, <1>4, <1>6, ServerOnWay, LocationOnWay
<1>7. ASSUME NEW k, Observe(k) \/ Allow(k) \/ Blocked(k)
                    \/ \E held \in {"held", "closed", "error"} : Tarpitted(k, held)
      PROVE  (CtxOnWay /\ VerdictOwn)'
  BY <1>1, <1>5, <1>7, JudgedStep
<1>8. ASSUME NEW k, NEW faults, NEW s \in 1 .. MaxSolve, Challenged(k, faults, s)
      PROVE  (CtxOnWay /\ VerdictOwn)'
  <2>1. PICK c : c = Conf[req.loc]
    OBVIOUS
  <2>2. PhaseStep /\ \E what : HandlerStep(GetCtx(req, req.loc, k), what)
    BY <1>1, <1>8, <2>1, ChallengeStep
  <2> QED
    BY <1>5, <2>2
<1>9. CASE Skip
  BY <1>1, <1>5, <1>9, SkipStep
<1>10. CASE Redirect
  <2>1. /\ req'.phase = "server rewrite" /\ req'.ctx = NoCtx
        /\ req'.redirected /\ req'.path = {}
    BY <1>1, <1>10, RedirectStep
  <2>2. OnWay(req')
    BY <2>1 DEF OnWay, Entered
  <2> QED
    BY <1>4, <2>1, <2>2
<1>11. CASE Finish
  BY <1>11 DEF Finish, CtxOnWay, VerdictOwn, Judged, Busy
<1>12. ASSUME NEW b, NEW nonce, NEW from, Sent(req', b, nonce, from)
       PROVE  (CtxOnWay /\ VerdictOwn)'
  <2>1. /\ req'.phase = "server rewrite" /\ req'.ctx = NoCtx
        /\ ~req'.redirected
        /\ req'.loc = Routes[req'.uri].via /\ req'.path = Routes[req'.uri].viaPath
    BY <1>12 DEF Sent
  <2>2. OnWay(req')
    BY <2>1 DEF OnWay, Entered
  <2> QED
    BY <1>4, <2>1, <2>2
<1>13. ASSUME NEW b \in Browsers, NEW u \in DOMAIN Routes, NEW q \in Shapes,
              Send(b, u, q)
       PROVE  (CtxOnWay /\ VerdictOwn)'
  <2>1. Sent(req', b, None, None)
    BY <1>1, <1>13, NewRequest DEF Send
  <2> QED
    BY <1>12, <2>1
<1>14. ASSUME NEW b \in Browsers, Resubmit(b)
       PROVE  (CtxOnWay /\ VerdictOwn)'
  <2>1. PICK p : p = browser[b].page
    OBVIOUS
  <2>2. Sent(req', b, p.nonce, p.from)
    BY <1>1, <1>14, <2>1, ResubmitStep
  <2> QED
    BY <1>12, <2>2
<1>15. \/ UNCHANGED req
       \/ \E k : \/ ServerRewrite(k) \/ LocationRewrite(k)
                 \/ Observe(k) \/ Allow(k) \/ Blocked(k)
                 \/ \E held \in {"held", "closed", "error"} : Tarpitted(k, held)
                 \/ \E faults : \E s \in 1 .. MaxSolve : Challenged(k, faults, s)
       \/ Skip \/ Redirect \/ Finish
       \/ \E b \in Browsers : \/ \E u \in DOMAIN Routes, q \in Shapes : Send(b, u, q)
                              \/ Resubmit(b)
  BY DEF Next, Preaccess, vars, Test, EndTest, Configure, Leave, Roam, Tick
<1> QED
  BY <1>3, <1>6, <1>7, <1>8, <1>9, <1>10, <1>11, <1>13, <1>14, <1>15

\* The PREACCESS handler enforces the verdict of the first block that asked for
\* it on the request's way, for any files and routes: that of its own location
\* for the path it serves, also after an internal redirect, unless rewrite rules
\* read a variable before.
THEOREM VerdictIsOwn == Spec => []VerdictOwn
<1>1. Init => OwnInv
  BY TypesInit DEF Init, OwnInv, CtxOnWay, VerdictOwn, Judged, Busy
<1>2. OwnInv /\ [Next]_vars => OwnInv'
  BY OwnStep
<1>3. OwnInv => VerdictOwn
  BY DEF OwnInv
<1> QED
  BY <1>1, <1>2, <1>3, PTL DEF Spec

-----------------------------------------------------------------------------
(* The second solution succeeds *)

\* A browser solves two challenges within one period.
RoomForTwo == \A d \in Lifetimes : 2 * MaxSolve <= d

\* A solution is refused only because its period is over; then the new page is
\* sent early in its own, and the refused one was not.
LEMMA Retry ==
  ASSUME RoomForTwo, NEW c, c.pow_secret \in Secrets, c.pow_ttl \in Lifetimes,
         c.pow_difficulty \in Nat, NEW a \in DOMAIN Addrs,
         NEW tries \in Nat, tries <= 1,
         NEW t \in Nat, NEW now \in Nat, t <= now, now <= t + MaxSolve,
         NEW nonce, Fits(nonce, c, a, tries, t), ~Solves(c, a, nonce, now)
  PROVE  /\ tries = 0
         /\ now < (now \div c.pow_ttl) * c.pow_ttl + MaxSolve
<1>1. PICK d \in Nat \ {0} : d = c.pow_ttl /\ 2 * MaxSolve <= d
  BY LifetimesPositive DEF RoomForTwo
<1>2. MaxSolve \in Nat
  BY PathAssumption
<1>3. PICK m \in Nat : m = t \div d
  BY Period
<1>4. PICK n \in Nat : n = now \div d
  BY Period
<1>5. nonce = Solution(Mac(c.pow_secret, a, m), c.pow_difficulty)
  BY <1>1, <1>3 DEF Fits, Challenge
<1>6. nonce \in Nonces
  BY <1>5 DEF Solution, Mac, Nonces
<1>7. m # n
  <2> SUFFICES ASSUME m = n PROVE FALSE
    OBVIOUS
  <2>1. /\ nonce.challenge = Challenge(c, a, now)
        /\ nonce.bits >= c.pow_difficulty
    BY <1>1, <1>4, <1>5 DEF Solution, Challenge
  <2> QED
    BY <1>6, <2>1, NonceAssumption DEF Solves
<1>8. t < n * d /\ (m + 1) * d <= now
  BY <1>3, <1>4, <1>7, LaterPeriod
<1>9. PICK x \in Nat, y \in Nat : x = m * d /\ y = n * d /\ (m + 1) * d = x + d
  BY SMT
<1>10. tries = 1 => t < x + MaxSolve
  BY <1>1, <1>3, <1>9 DEF Fits
<1>11. tries = 0
  BY <1>1, <1>2, <1>8, <1>9, <1>10
<1>12. now < y + MaxSolve
  BY <1>2, <1>8, <1>9
<1> QED
  BY <1>1, <1>4, <1>9, <1>11, <1>12

LEMMA ChallengeFits ==
  ASSUME RoomForTwo, TryInv, NEW k, NEW faults, NEW s \in 1 .. MaxSolve,
         Challenged(k, faults, s)
  PROVE  (PagesFit /\ RequestFits /\ SecondTrySucceeds)'
<1>1. Types /\ PagesFit /\ RequestFits /\ SecondTrySucceeds
  BY DEF TryInv
<1>2. PICK c : c = Conf[req.loc]
  OBVIOUS
<1>3. Busy /\ Request(req) /\ file # None /\ PhaseStep /\ req.b \in Browsers
  BY <1>1, <1>2, ChallengeStep DEF Request
<1>4. PICK br \in Browser, a \in DOMAIN Addrs : br = browser[req.b] /\ a = br.addr
  BY <1>1, <1>3 DEF Types, Browser
<1>5. PICK what, new :
        /\ what = Dispatch(c, a, req.cookie, req.nonce, clock, faults)
        /\ HandlerStep(GetCtx(req, req.loc, k), what)
        /\ what = "page" => req'.phase = "log"
        /\ Served(br, new, what, c, s)
        /\ browser' = [browser EXCEPT ![req.b] = new]
  BY <1>1, <1>2, <1>4, ChallengeStep
<1>6. /\ clock' = clock /\ file' = file /\ Conf' = Conf
      /\ SameSender(req, req') /\ req'.result = what /\ req.phase = "preaccess"
  BY <1>3, <1>5 DEF PhaseStep, HandlerStep, Conf
<1>7. PICK now \in Nat : now = clock /\ now \in Epoch .. now
  BY <1>1, PathAssumption DEF Types
<1>8. file \in Accepted /\ req.loc \in ToSet(Locs) /\ req.loc # None
  <2>1. file \in Accepted
    BY <1>1, <1>3 DEF Types
  <2>2. req.loc \in ToSet(Locs)
    BY <1>3 DEF Request
  <2> QED
    BY <2>1, <2>2, Blocks
<1>9. /\ c.pow_secret \in Secrets /\ c.pow_ttl \in Lifetimes
      /\ c.pow_difficulty \in Nat
  BY <1>2, <1>8, ConfRanges
<1>10. /\ br.tries \in Nat /\ br.tries <= 1
       /\ new \in Browser /\ new.tries \in Nat /\ new.addr = a
  BY <1>1, <1>3, <1>4, <1>5 DEF SecondTrySucceeds, Browser, Served
<1>11. req.from # None =>
         \E t \in Epoch .. now : /\ Fits(req.nonce, Conf[req.from], a, br.tries, t)
                                 /\ now <= t + MaxSolve
  BY <1>1, <1>3, <1>4, <1>6, <1>7 DEF RequestFits
<1>12. \A b \in Browsers : browser'[b] = IF b = req.b THEN new ELSE browser[b]
  BY <1>1, <1>5 DEF Types
<1>13. CASE what = "page"
  <2>1. /\ new.page = NewPage(req, c, a, now + s)
        /\ new.tries = IF req.from = req.loc THEN br.tries + 1 ELSE 0
    BY <1>4, <1>5, <1>7, <1>13 DEF Served
  <2>2. /\ new.tries <= 1
        /\ new.tries = 1 => now < (now \div c.pow_ttl) * c.pow_ttl + MaxSolve
    <3>1. CASE req.from = req.loc
      <4>1. PICK t \in Epoch .. now : /\ Fits(req.nonce, c, a, br.tries, t)
                                      /\ now <= t + MaxSolve
        BY <1>2, <1>8, <1>11, <3>1
      <4>2. t \in Nat /\ t <= now
        BY <1>7, <4>1, PathAssumption
      <4>3. ~Solves(c, a, req.nonce, now)
        BY <1>5, <1>7, <1>13 DEF Dispatch
      <4>4. /\ br.tries = 0
            /\ now < (now \div c.pow_ttl) * c.pow_ttl + MaxSolve
        BY <1>9, <1>10, <4>1, <4>2, <4>3, Retry
      <4> QED
        BY <2>1, <3>1, <4>4
    <3>2. CASE req.from # req.loc
      BY <2>1, <3>2
    <3> QED
      BY <3>1, <3>2
  <2>3. /\ new.page.nonce = Solution(Challenge(c, a, now), c.pow_difficulty)
        /\ new.page.from = req.loc
        /\ new.page.due = now + s
    BY <1>7, <2>1 DEF NewPage
  <2>4. Fits(new.page.nonce, c, a, new.tries, now)
    BY <2>2, <2>3 DEF Fits
  <2>5. now <= now + s /\ now + s <= now + MaxSolve
    BY PathAssumption
  <2>6. PageFits(new, Conf, clock)
    BY <1>2, <1>7, <1>10, <2>3, <2>4, <2>5 DEF PageFits
  <2>7. PagesFit'
    BY <1>1, <1>3, <1>6, <1>12, <2>6 DEF PagesFit
  <2>8. RequestFits'
    BY <1>5, <1>6, <1>13 DEF RequestFits
  <2>9. SecondTrySucceeds'
    BY <1>1, <1>12, <2>2 DEF SecondTrySucceeds
  <2> QED
    BY <2>7, <2>8, <2>9
<1>14. CASE what # "page"
  <2>1. new.page = br.page /\ new.tries \in {br.tries, 0}
    BY <1>5, <1>14 DEF Served
  <2>2. \A nonce, d, t : Fits(nonce, d, a, br.tries, t)
                           => Fits(nonce, d, a, new.tries, t)
    BY <2>1 DEF Fits
  <2>3. PageFits(br, Conf, clock) => PageFits(new, Conf, clock)
    BY <1>4, <1>10, <2>1, <2>2 DEF PageFits
  <2>4. PagesFit'
    BY <1>1, <1>3, <1>4, <1>6, <1>12, <2>1, <2>3 DEF PagesFit
  <2>5. browser'[req'.b].addr = a /\ browser'[req'.b].tries = new.tries
    BY <1>3, <1>6, <1>10, <1>12 DEF SameSender
  <2>6. req'.from # None =>
          \E t \in Epoch .. now :
            /\ Fits(req'.nonce, Conf[req'.from], a, new.tries, t)
            /\ now <= t + MaxSolve
    BY <1>6, <1>11, <2>2 DEF SameSender
  <2>7. RequestFits'
    BY <1>6, <1>7, <2>5, <2>6 DEF RequestFits
  <2>8. SecondTrySucceeds'
    BY <1>1, <1>4, <1>10, <1>12, <2>1 DEF SecondTrySucceeds
  <2> QED
    BY <2>4, <2>7, <2>8
<1> QED
  BY <1>13, <1>14

LEMMA TryStep ==
  ASSUME RoomForTwo, TryInv, [Next]_vars
  PROVE  TryInv'
<1>1. Types /\ PagesFit /\ RequestFits /\ SecondTrySucceeds
  BY DEF TryInv
<1>2. Types'
  BY <1>1, TypesStep
<1> DEFINE Goal == (PagesFit /\ RequestFits /\ SecondTrySucceeds)'
<1> SUFFICES Goal
  BY <1>2 DEF TryInv
<1>3. CASE UNCHANGED <<clock, file, browser, req>>
  BY <1>1, <1>3 DEF PagesFit, RequestFits, SecondTrySucceeds, Busy, Conf
<1>4. ASSUME UNCHANGED <<clock, file, browser>>
      PROVE  (PagesFit /\ SecondTrySucceeds)'
  BY <1>1, <1>4 DEF PagesFit, SecondTrySucceeds, Conf
<1>5. ASSUME PhaseStep, UNCHANGED browser,
             ~(req.phase = "log" /\ req.result = "page")
      PROVE  Goal
  <2>1. UNCHANGED <<clock, file, browser>> /\ Conf' = Conf
    BY <1>5 DEF PhaseStep, Conf
  <2>2. RequestFits'
    BY <1>1, <1>5, <2>1 DEF RequestFits, PhaseStep, SameSender
  <2> QED
    BY <1>4, <2>1, <2>2
<1>6. ASSUME NEW k, ServerRewrite(k) \/ LocationRewrite(k) PROVE Goal
  <2>1. req.phase # "log"
    BY <1>6 DEF ServerRewrite, LocationRewrite
  <2> QED
    BY <1>1, <1>5, <1>6, <2>1, RewriteStep
<1>7. ASSUME NEW k, Observe(k) \/ Allow(k) \/ Blocked(k)
                    \/ \E held \in {"held", "closed", "error"} : Tarpitted(k, held)
      PROVE  Goal
  <2>1. req.phase = "preaccess"
    BY <1>1, <1>7, JudgedStep DEF HandlerStep
  <2> QED
    BY <1>1, <1>5, <1>7, <2>1, JudgedStep
<1>8. ASSUME NEW k, NEW faults, NEW s \in 1 .. MaxSolve, Challenged(k, faults, s)
      PROVE  Goal
  BY <1>8, ChallengeFits
<1>9. CASE Skip
  <2>1. req.phase = "preaccess"
    BY <1>1, <1>9, SkipStep DEF HandlerStep
  <2> QED
    BY <1>1, <1>5, <1>9, <2>1, SkipStep
<1>10. CASE Redirect
  <2>1. ~(req.phase = "log" /\ req.result = "page")
    BY <1>1, <1>10, RedirectStep
  <2> QED
    BY <1>1, <1>5, <1>10, <2>1, RedirectStep
<1>11. CASE Finish
  <2>1. UNCHANGED <<clock, file, browser>> /\ RequestFits'
    BY <1>11 DEF Finish, RequestFits, Busy
  <2> QED
    BY <1>4, <2>1
<1>12. ASSUME NEW b \in Browsers, NEW u \in DOMAIN Routes, NEW q \in Shapes,
              Send(b, u, q)
       PROVE  Goal
  <2>1. Sent(req', b, None, None)
    BY <1>1, <1>12, NewRequest DEF Send
  <2>2. UNCHANGED <<clock, file, browser>> /\ RequestFits'
    BY <1>12, <2>1 DEF Send, Sent, RequestFits
  <2> QED
    BY <1>4, <2>2
<1>13. ASSUME NEW b \in Browsers, Resubmit(b) PROVE Goal
  <2>1. PICK p : p = browser[b].page
    OBVIOUS
  <2>2. /\ p # None /\ p.due = clock
        /\ Sent(req', b, p.nonce, p.from)
        /\ browser' = [browser EXCEPT ![b].page = None]
    BY <1>1, <1>13, <2>1, ResubmitStep
  <2>3. /\ clock' = clock /\ file' = file /\ Conf' = Conf
    BY <1>13 DEF Resubmit, Conf
  <2>4. \A x \in Browsers :
          /\ browser'[x].addr = browser[x].addr
          /\ browser'[x].tries = browser[x].tries
          /\ browser'[x].page # None => browser'[x] = browser[x]
    BY <1>1, <2>2 DEF Types, Browser
  <2>5. PagesFit'
    BY <1>1, <2>3, <2>4 DEF PagesFit
  <2>6. SecondTrySucceeds'
    BY <1>1, <2>4 DEF SecondTrySucceeds
  <2>7. p.from # None =>
          \E t \in Epoch .. clock :
            /\ Fits(p.nonce, Conf[p.from], browser[b].addr, browser[b].tries, t)
            /\ clock <= t + MaxSolve
    BY <1>1, <2>1, <2>2 DEF PagesFit, PageFits
  <2>8. RequestFits'
    BY <2>2, <2>3, <2>4, <2>7 DEF RequestFits, Sent
  <2> QED
    BY <2>5, <2>6, <2>8
<1>14. ASSUME ~Busy', UNCHANGED <<clock, file>>,
              \A b \in Browsers : browser'[b].tries = 0 \/ browser'[b] = browser[b],
              \A b \in Browsers :
                \/ browser'[b].page = None \/ browser'[b].page.from = None
                \/ browser'[b] = browser[b]
       PROVE  Goal
  <2>1. RequestFits'
    BY <1>14 DEF RequestFits
  <2>2. SecondTrySucceeds'
    BY <1>1, <1>14 DEF SecondTrySucceeds
  <2>3. PagesFit'
    BY <1>1, <1>14 DEF PagesFit, Conf
  <2> QED
    BY <2>1, <2>2, <2>3
<1>15. ASSUME NEW f \in DOMAIN Files, Configure(f) PROVE Goal
  <2>1. CASE Loaded[f].ok
    <3>1. ASSUME NEW b \in Browsers
          PROVE  /\ browser'[b].tries = 0
                 /\ browser'[b].page # None => browser'[b].page.from = None
      <4>1. browser[b] \in Browser /\ browser'[b] = Spoilt(browser[b])
        BY <1>1, <1>15, <2>1 DEF Configure, Types
      <4> QED
        BY <4>1, SpoiltBrowser
    <3>2. ~Busy'
      BY <1>15 DEF Configure, Busy
    <3> QED
      BY <3>1, <3>2 DEF PagesFit, RequestFits, SecondTrySucceeds
  <2>2. CASE ~Loaded[f].ok
    BY <1>3, <1>15, <2>2 DEF Configure
  <2> QED
    BY <2>1, <2>2
<1>16. ASSUME NEW b \in Browsers, Leave(b) PROVE Goal
  <2>1. /\ \A x \in Browsers : browser'[x].tries = 0 \/ browser'[x] = browser[x]
        /\ \A x \in Browsers : browser'[x].page = None \/ browser'[x] = browser[x]
    BY <1>1, <1>16 DEF Leave, Types, Browser
  <2> QED
    BY <1>14, <1>16, <2>1 DEF Leave, Idle, Busy
<1>17. ASSUME NEW b \in Browsers, NEW a \in DOMAIN Addrs, Roam(b, a) PROVE Goal
  <2>1. PICK new : new = Spoilt(browser[b])
    OBVIOUS
  <2>2. /\ new \in Browser /\ new.tries = 0
        /\ new.page = None \/ new.page.from = None
    BY <1>1, <2>1, SpoiltBrowser DEF Types
  <2>3. PICK moved : moved = [new EXCEPT !.addr = a]
    OBVIOUS
  <2>4. moved.tries = 0 /\ moved.page = new.page
    BY <2>2, <2>3 DEF Browser
  <2>5. browser' = [browser EXCEPT ![b] = moved]
    BY <1>17, <2>1, <2>3 DEF Roam
  <2>6. \A x \in Browsers : browser'[x] = IF x = b THEN moved ELSE browser[x]
    BY <1>1, <2>5 DEF Types
  <2> QED
    BY <1>14, <1>17, <2>2, <2>4, <2>6 DEF Roam, Idle, Busy
<1>18. CASE Tick
  <2>1. PICK now \in Nat : now = clock
    BY <1>1, PathAssumption DEF Types
  <2>2. clock' = now + 1 /\ UNCHANGED <<browser, file>> /\ Conf' = Conf /\ ~Busy'
    BY <1>18, <2>1 DEF Tick, Conf, Idle, Busy
  <2>3. RequestFits' /\ SecondTrySucceeds'
    BY <1>1, <2>2 DEF RequestFits, SecondTrySucceeds
  <2>4. ASSUME NEW b \in Browsers, browser[b].page # None,
               PageFits(browser[b], Conf, now)
        PROVE  PageFits(browser[b], Conf, now + 1)
    <3>1. PICK br \in Browser : br = browser[b]
      BY <1>1 DEF Types
    <3>2. br.page.due \in Nat /\ br.page.due > now
      BY <1>18, <2>1, <2>4, <3>1 DEF Tick, Pages, Browser
    <3>3. PICK t \in Epoch .. now :
            /\ Fits(br.page.nonce, Conf[br.page.from], br.addr, br.tries, t)
            /\ br.page.due <= t + MaxSolve
      BY <2>4, <3>1 DEF PageFits
    <3>4. t \in Epoch .. now + 1 /\ now + 1 <= br.page.due
      BY <2>1, <3>2, PathAssumption
    <3> QED
      BY <3>1, <3>3, <3>4 DEF PageFits
  <2>5. PagesFit'
    BY <1>1, <2>1, <2>2, <2>4 DEF PagesFit
  <2> QED
    BY <2>3, <2>5
<1>19. \/ UNCHANGED <<clock, file, browser, req>>
       \/ \E k : \/ ServerRewrite(k) \/ LocationRewrite(k)
                 \/ Observe(k) \/ Allow(k) \/ Blocked(k)
                 \/ \E held \in {"held", "closed", "error"} : Tarpitted(k, held)
                 \/ \E faults : \E s \in 1 .. MaxSolve : Challenged(k, faults, s)
       \/ Skip \/ Redirect \/ Finish \/ Tick
       \/ \E f \in DOMAIN Files : Configure(f)
       \/ \E b \in Browsers : \/ \E u \in DOMAIN Routes, q \in Shapes : Send(b, u, q)
                              \/ Resubmit(b) \/ Leave(b)
                              \/ \E a \in DOMAIN Addrs : Roam(b, a)
  BY DEF Next, Preaccess, vars, Test, EndTest
<1> QED
  BY <1>3, <1>6, <1>7, <1>8, <1>9, <1>10, <1>11, <1>12, <1>13, <1>15, <1>16,
     <1>17, <1>18, <1>19

\* The page's script always gets in at its second solution at the latest, for
\* any files, difficulties and lifetimes, over faults, redirects and reloads, if
\* two solutions fit into a lifetime: the end of a period spoils one page.
THEOREM SecondTryIsEnough ==
  ASSUME RoomForTwo
  PROVE  Spec => []SecondTrySucceeds
<1>1. Init => TryInv
  <2> SUFFICES ASSUME Init PROVE TryInv
    OBVIOUS
  <2>1. \A b \in Browsers : browser[b].page = None /\ browser[b].tries = 0
    <3>1. \A a \in DOMAIN Addrs : Fresh(a).page = None /\ Fresh(a).tries = 0
      BY DEF Fresh
    <3> QED
      BY <3>1 DEF Init
  <2>2. Types /\ ~Busy
    BY TypesInit DEF Init, Busy
  <2> QED
    BY <2>1, <2>2 DEF TryInv, PagesFit, RequestFits, SecondTrySucceeds
<1>2. TryInv /\ [Next]_vars => TryInv'
  BY TryStep
<1>3. TryInv => SecondTrySucceeds
  BY DEF TryInv
<1> QED
  BY <1>1, <1>2, <1>3, PTL DEF Spec

-----------------------------------------------------------------------------
(* What a file comes to *)

\* Those of the first n directives of text that declare a zone of kind k.
Declared(text, k, n) == {i \in Places(text, k) : i <= n}

Names(text) ==
  {text[i].arg.name : i \in {i \in DOMAIN text : text[i].dir \in ZoneKinds}}

Arrays(text) == [elts : Seq(Names(text)), room : Nat, moves : Nat]

\* No two zones of text have the same name.
Apart(text) ==
  \A i, j \in DOMAIN text :
    i # j /\ {text[i].dir, text[j].dir} \subseteq ZoneKinds =>
      text[i].arg.name # text[j].arg.name

\* The array a of kind k after n directives: while it has room it does not move.
ArraySound(text, n, k, a) ==
  /\ Len(a.elts) = Cardinality(Declared(text, k, n))
  /\ Len(a.elts) <= Capacity[k] => a.moves = 0 /\ a.room = Capacity[k]
  /\ \A i \in DOMAIN a.elts :
       \E j \in Declared(text, k, n) : text[j].arg.name = a.elts[i]

\* The shared zones point at the elements.
Pointed(k, a, shm) ==
  Len(a.elts) <= Capacity[k] =>
    \A i \in DOMAIN a.elts :
      a.elts[i] \in DOMAIN shm /\ shm[a.elts[i]].at = <<k, 0, i>>

\* The state s of the reader after n directives.
Reading(text, n, s) ==
  /\ s = [ok |-> s.ok, arrays |-> s.arrays, shm |-> s.shm, raw |-> s.raw]
  /\ s.arrays \in [ZoneKinds -> Arrays(text)]
  /\ DOMAIN s.raw = Levels
  /\ s.ok =>
       /\ \A k \in ZoneKinds : ArraySound(text, n, k, s.arrays[k])
       /\ Apart(text) => \A k \in ZoneKinds : Pointed(k, s.arrays[k], s.shm)

\* A set of numbers has a least element.
LEMMA Least ==
  ASSUME NEW S \in SUBSET Nat, S # {}
  PROVE  \E i \in S : \A j \in S : i <= j
<1>1. PICK i \in S : \A j \in S : ~(<<j, i>> \in OpToRel(<, Nat))
  BY WFMin, NatLessThanWellFounded
<1>2. \A j \in S : ~(j < i)
  BY <1>1 DEF OpToRel
<1> QED
  BY <1>2

\* Min finds it.
LEMMA MinIsIn ==
  ASSUME NEW S \in SUBSET Nat, S # {}
  PROVE  Min(S) \in S
  BY Least DEF Min

\* Induction up to N, on the set of the numbers that are known to be good.
LEMMA UpTo ==
  ASSUME NEW N \in Nat, NEW G, 0 \in G,
         \A n \in 1 .. N : n - 1 \in G => n \in G
  PROVE  \A n \in 0 .. N : n \in G
<1> SUFFICES ASSUME (0 .. N) \ G # {} PROVE FALSE
  OBVIOUS
<1>1. PICK i \in (0 .. N) \ G : \A j \in (0 .. N) \ G : i <= j
  <2>1. (0 .. N) \ G \in SUBSET Nat
    OBVIOUS
  <2> QED
    BY <2>1, Least
<1>2. i \in 1 .. N /\ i - 1 \in 0 .. N
  BY <1>1
<1>3. i - 1 \in G
  BY <1>1, <1>2
<1> QED
  BY <1>1, <1>2, <1>3

\* Parsed reads the directives one after the other.
LEMMA ReadInOrder ==
  ASSUME NEW text, Len(text) \in Nat
  PROVE  \E st : /\ st[0] = Empty
                 /\ \A n \in 1 .. Len(text) : st[n] = Handle(st[n - 1], text[n])
                 /\ Parsed(text) = st[Len(text)]
<1> DEFINE Step(g, n) == IF n = 0 THEN Empty ELSE Handle(g[n - 1], text[n])
           G == {m \in 0 .. Len(text) :
                   \E g : g = [n \in 0 .. m |-> Step(g, n)]}
<1>1. 0 \in G
  <2>1. PICK g : g = [n \in 0 .. 0 |-> Empty]
    OBVIOUS
  <2>2. g = [n \in 0 .. 0 |-> Step(g, n)]
    BY <2>1
  <2> QED
    BY <2>2
<1>2. ASSUME NEW m \in 1 .. Len(text), m - 1 \in G PROVE m \in G
  <2>1. PICK g : g = [n \in 0 .. m - 1 |-> Step(g, n)]
    BY <1>2
  <2>2. PICK h : h = [n \in 0 .. m |-> IF n = m THEN Handle(g[m - 1], text[m])
                                       ELSE g[n]]
    OBVIOUS
  <2>3. \A n \in 0 .. m - 1 : h[n] = g[n]
    BY <2>2
  <2>4. h[m] = Step(h, m)
    BY <2>2, <2>3
  <2>5. \A n \in 0 .. m - 1 : h[n] = Step(h, n)
    <3> SUFFICES ASSUME NEW n \in 0 .. m - 1 PROVE h[n] = Step(h, n)
      OBVIOUS
    <3>1. g[n] = Step(g, n)
      BY <2>1
    <3>2. n # 0 => n - 1 \in 0 .. m - 1
      OBVIOUS
    <3> QED
      BY <2>3, <3>1, <3>2
  <2>6. \A n \in 0 .. m : h[n] = Step(h, n)
    BY <2>4, <2>5
  <2> HIDE DEF Step
  <2>7. h = [n \in 0 .. m |-> Step(h, n)]
    BY <2>2, <2>6
  <2> QED
    BY <2>7
<1>3. Len(text) \in G
  <2>1. \A m \in 1 .. Len(text) : m - 1 \in G => m \in G
    BY <1>2
  <2> HIDE DEF G
  <2>2. \A n \in 0 .. Len(text) : n \in G
    BY <1>1, <2>1, UpTo
  <2> QED
    BY <2>2
<1>4. PICK st : /\ st = [n \in 0 .. Len(text) |-> Step(st, n)]
                /\ Parsed(text) = st[Len(text)]
  BY <1>3 DEF Parsed
<1> QED
  BY <1>4

-----------------------------------------------------------------------------
(* The handlers *)

\* Before the first directive.
LEMMA EmptyReading ==
  ASSUME NEW text, IsFile(text)
  PROVE  Reading(text, 0, Empty)
<1>1. ASSUME NEW k \in ZoneKinds
      PROVE  /\ Empty.arrays[k] \in Arrays(text)
             /\ ArraySound(text, 0, k, Empty.arrays[k])
             /\ Pointed(k, Empty.arrays[k], Empty.shm)
  <2>1. PICK a : a = Empty.arrays[k]
    OBVIOUS
  <2>2. a = [elts |-> << >>, room |-> Capacity[k], moves |-> 0]
    BY <2>1 DEF Empty
  <2>3. a.elts = << >> /\ a.room = Capacity[k] /\ a.moves = 0
    BY <2>2
  <2>4. << >> \in Seq(Names(text)) /\ Len(<< >>) = 0 /\ DOMAIN << >> = {}
    OBVIOUS
  <2>5. a \in Arrays(text)
    BY <2>2, <2>4, ConfigAssumption DEF Arrays
  <2>6. Cardinality(Declared(text, k, 0)) = 0
    <3>1. Declared(text, k, 0) = {}
      BY DEF Declared, Places, IsFile
    <3> QED
      BY <3>1, FS_EmptySet
  <2>7. ArraySound(text, 0, k, a)
    BY <2>3, <2>4, <2>6 DEF ArraySound
  <2>8. Pointed(k, a, Empty.shm)
    BY <2>3, <2>4 DEF Pointed
  <2> QED
    BY <2>1, <2>5, <2>7, <2>8
<1>2. Empty.arrays \in [ZoneKinds -> Arrays(text)]
  BY <1>1 DEF Empty
<1>3. DOMAIN Empty.raw = Levels
  BY DEF Empty
<1>4. Empty = [ok |-> Empty.ok, arrays |-> Empty.arrays, shm |-> Empty.shm,
               raw |-> Empty.raw]
  BY DEF Empty
<1> QED
  BY <1>1, <1>2, <1>3, <1>4 DEF Reading

\* A file is finite.
LEMMA DeclaredFinite ==
  ASSUME NEW text, IsFile(text), NEW k
  PROVE  /\ IsFiniteSet(Places(text, k))
         /\ Cardinality(Places(text, k)) \in Nat
         /\ Len(text) \in Nat /\ DOMAIN text = 1 .. Len(text)
         /\ Declared(text, k, Len(text)) = Places(text, k)
         /\ \A n : /\ IsFiniteSet(Declared(text, k, n))
                   /\ Cardinality(Declared(text, k, n)) \in Nat
<1>1. Len(text) \in Nat /\ DOMAIN text = 1 .. Len(text)
  BY DEF IsFile
<1>2. IsFiniteSet(1 .. Len(text))
  BY <1>1, FS_Interval
<1>3. Places(text, k) \in SUBSET (1 .. Len(text))
  BY <1>1 DEF Places
<1>4. \A n : Declared(text, k, n) \in SUBSET (1 .. Len(text))
  BY <1>3 DEF Declared
<1>5. Declared(text, k, Len(text)) = Places(text, k)
  BY <1>1, <1>3 DEF Declared
<1> QED
  BY <1>1, <1>2, <1>3, <1>4, <1>5, FS_Subset, FS_CardinalityType

\* One more zone of kind k.
LEMMA DeclareMore ==
  ASSUME NEW text, IsFile(text), NEW k, NEW n \in 1 .. Len(text)
  PROVE  /\ text[n].dir = k =>
              Cardinality(Declared(text, k, n))
                = Cardinality(Declared(text, k, n - 1)) + 1
         /\ text[n].dir # k => Declared(text, k, n) = Declared(text, k, n - 1)
         /\ Declared(text, k, n - 1) \subseteq Declared(text, k, n)
<1>1. n \in Nat /\ Len(text) \in Nat /\ DOMAIN text = 1 .. Len(text)
  BY DeclaredFinite
<1>2. Places(text, k) \subseteq Nat
  BY <1>1 DEF Places
<1>3. \A i \in Nat : i <= n <=> i <= n - 1 \/ i = n
  BY <1>1
<1>4. text[n].dir = k =>
        /\ Declared(text, k, n) = Declared(text, k, n - 1) \cup {n}
        /\ n \notin Declared(text, k, n - 1)
  BY <1>1, <1>2, <1>3 DEF Declared, Places
<1>5. text[n].dir # k => Declared(text, k, n) = Declared(text, k, n - 1)
  BY <1>1, <1>2, <1>3 DEF Declared, Places
<1>6. Declared(text, k, n - 1) \subseteq Declared(text, k, n)
  BY <1>2, <1>3 DEF Declared
<1> QED
  BY <1>4, <1>5, <1>6, DeclaredFinite, FS_AddElement

\* ngx_array_push: no move before the array is full.
LEMMA PushSound ==
  ASSUME NEW text, IsFile(text), NEW k \in ZoneKinds, NEW n \in 1 .. Len(text),
         text[n].dir = k, NEW a \in Arrays(text), ArraySound(text, n - 1, k, a),
         NEW b, b = Pushed(a, text[n].arg.name)
  PROVE  /\ b \in Arrays(text)
         /\ b.elts = Append(a.elts, text[n].arg.name)
         /\ ArraySound(text, n, k, b)
<1>1. PICK nm : nm = text[n].arg.name
  OBVIOUS
<1>2. nm \in Names(text)
  BY <1>1, DeclaredFinite DEF Names
<1>3. a.elts \in Seq(Names(text)) /\ a.room \in Nat /\ a.moves \in Nat
  BY DEF Arrays
<1>4. PICK e : e = Append(a.elts, nm)
  OBVIOUS
<1>5. /\ e \in Seq(Names(text))
      /\ Len(e) = Len(a.elts) + 1 /\ Len(a.elts) \in Nat
      /\ DOMAIN e = DOMAIN a.elts \cup {Len(e)}
      /\ e[Len(e)] = nm
      /\ \A i \in DOMAIN a.elts : e[i] = a.elts[i]
  BY <1>2, <1>3, <1>4
<1>6. /\ Len(a.elts) = a.room =>
           b = [elts |-> e, room |-> 2 * a.room, moves |-> a.moves + 1]
      /\ Len(a.elts) # a.room => b = [a EXCEPT !.elts = e]
  BY <1>1, <1>4 DEF Pushed
<1>7. /\ b \in Arrays(text) /\ b.elts = e
      /\ Len(a.elts) # a.room => b.room = a.room /\ b.moves = a.moves
  <2>1. CASE Len(a.elts) = a.room
    BY <1>3, <1>5, <1>6, <2>1 DEF Arrays
  <2>2. CASE Len(a.elts) # a.room
    BY <1>3, <1>5, <1>6, <2>2 DEF Arrays
  <2> QED
    BY <2>1, <2>2
<1>8. Len(e) = Cardinality(Declared(text, k, n))
  BY <1>5, DeclareMore DEF ArraySound
<1>9. Len(e) <= Capacity[k] => b.moves = 0 /\ b.room = Capacity[k]
  <2>1. Capacity[k] \in Nat
    BY ConfigAssumption
  <2> QED
    BY <1>3, <1>5, <1>7, <2>1 DEF ArraySound
<1>10. /\ n \in Declared(text, k, n)
       /\ Declared(text, k, n - 1) \subseteq Declared(text, k, n)
  BY DeclareMore, DeclaredFinite DEF Declared, Places
<1>11. \A i \in DOMAIN e :
         \E j \in Declared(text, k, n) : text[j].arg.name = e[i]
  BY <1>1, <1>5, <1>10 DEF ArraySound
<1> QED
  BY <1>1, <1>4, <1>7, <1>8, <1>9, <1>11 DEF ArraySound

\* A refusal ends the reading.
LEMMA RefuseReading ==
  ASSUME NEW text, NEW m, NEW n, NEW s, Reading(text, m, s)
  PROVE  Reading(text, n, Refuse(s))
<1>1. PICK o, a, h, r : s = [ok |-> o, arrays |-> a, shm |-> h, raw |-> r]
  BY DEF Reading
<1>2. PICK no : no = FALSE
  OBVIOUS
<1>3. PICK t : t = [s EXCEPT !.ok = no]
  OBVIOUS
<1>4. t = [ok |-> no, arrays |-> a, shm |-> h, raw |-> r]
  BY <1>1, <1>3
<1>5. Refuse(s) = t
  BY <1>2, <1>3 DEF Refuse
<1>6. t = [ok |-> t.ok, arrays |-> t.arrays, shm |-> t.shm, raw |-> t.raw]
  BY <1>4
<1>7. t.arrays = s.arrays /\ t.raw = s.raw /\ ~t.ok
  BY <1>1, <1>2, <1>4
<1> QED
  BY <1>5, <1>6, <1>7 DEF Reading

\* An array that does not change stays sound.
LEMMA OtherKinds ==
  ASSUME NEW text, IsFile(text), NEW n \in 1 .. Len(text), NEW k, NEW a,
         text[n].dir # k, ArraySound(text, n - 1, k, a)
  PROVE  ArraySound(text, n, k, a)
  BY DeclareMore DEF ArraySound

\* The zone directives: the new element is where its shared zone points, and
\* the older ones still are, as nothing moves and no name comes twice.
LEMMA DeclareReading ==
  ASSUME NEW text, IsFile(text), NEW n \in 1 .. Len(text), NEW s,
         Reading(text, n - 1, s), s.ok, text[n].dir \in ZoneKinds
  PROVE  Reading(text, n, Declare(s, text[n]))
<1>1. PICK d : d = text[n]
  OBVIOUS
<1>2. PICK q : q = d.dir
  OBVIOUS
<1>3. PICK nm : nm = d.arg.name
  OBVIOUS
<1>4. PICK b : b = Pushed(s.arrays[q], nm)
  OBVIOUS
<1>5. PICK arrays : arrays = [s.arrays EXCEPT ![q] = b]
  OBVIOUS
<1>6. /\ s = [ok |-> s.ok, arrays |-> s.arrays, shm |-> s.shm, raw |-> s.raw]
      /\ s.arrays \in [ZoneKinds -> Arrays(text)]
      /\ DOMAIN s.raw = Levels
      /\ \A k \in ZoneKinds : ArraySound(text, n - 1, k, s.arrays[k])
      /\ Apart(text) => \A k \in ZoneKinds : Pointed(k, s.arrays[k], s.shm)
  BY DEF Reading
<1>7. /\ b \in Arrays(text)
      /\ b.elts = Append(s.arrays[q].elts, nm)
      /\ ArraySound(text, n, q, b)
  <2>1. PICK a : a = s.arrays[q]
    OBVIOUS
  <2>2. a \in Arrays(text) /\ ArraySound(text, n - 1, q, a)
    BY <1>1, <1>2, <1>6, <2>1
  <2>3. b = Pushed(a, text[n].arg.name)
    BY <1>1, <1>3, <1>4, <2>1
  <2>4. /\ b \in Arrays(text)
        /\ b.elts = Append(a.elts, text[n].arg.name)
        /\ ArraySound(text, n, q, b)
    BY <1>1, <1>2, <2>2, <2>3, PushSound
  <2> QED
    BY <1>1, <1>3, <2>1, <2>4
<1>8. /\ arrays \in [ZoneKinds -> Arrays(text)]
      /\ arrays[q] = b
      /\ \A k \in ZoneKinds \ {q} : arrays[k] = s.arrays[k]
  BY <1>1, <1>2, <1>5, <1>6, <1>7
<1>9. \A k \in ZoneKinds : ArraySound(text, n, k, arrays[k])
  BY <1>1, <1>2, <1>6, <1>7, <1>8, OtherKinds
<1>10. PICK shm :
         shm = Overlay([x \in {nm} |->
                          [size |-> d.arg.size,
                           at |-> Address(arrays, q, Len(arrays[q].elts))]],
                       s.shm)
  OBVIOUS
<1>11. /\ DOMAIN shm = {nm} \cup DOMAIN s.shm
       /\ shm[nm].at = <<q, b.moves, Len(b.elts)>>
       /\ \A x \in DOMAIN s.shm \ {nm} : shm[x] = s.shm[x]
  BY <1>8, <1>10 DEF Overlay, Address
<1>12. ASSUME Apart(text), NEW k \in ZoneKinds,
              Len(arrays[k].elts) <= Capacity[k],
              NEW i \in DOMAIN arrays[k].elts
       PROVE  /\ arrays[k].elts[i] \in DOMAIN shm
              /\ shm[arrays[k].elts[i]].at = <<k, 0, i>>
  <2>1. PICK a \in Arrays(text) : a = s.arrays[k]
    BY <1>6
  <2>2. /\ a.elts \in Seq(Names(text))
        /\ Len(a.elts) \in Nat /\ DOMAIN a.elts = 1 .. Len(a.elts)
    BY DEF Arrays
  <2>3. Pointed(k, a, s.shm) /\ ArraySound(text, n - 1, k, a)
    BY <1>6, <1>12, <2>1
  <2>4. ASSUME NEW j \in DOMAIN a.elts PROVE a.elts[j] # nm
    <3>1. PICK p \in Declared(text, k, n - 1) : text[p].arg.name = a.elts[j]
      BY <2>3 DEF ArraySound
    <3>2. /\ p \in DOMAIN text /\ text[p].dir = k /\ p <= n - 1
          /\ n \in DOMAIN text
      BY DeclaredFinite DEF Declared, Places
    <3>3. p # n
      BY <3>2, DeclaredFinite
    <3> QED
      BY <1>1, <1>3, <1>12, <3>1, <3>2, <3>3 DEF Apart
  <2>5. ASSUME Len(a.elts) <= Capacity[k], i \in DOMAIN a.elts,
               arrays[k].elts[i] = a.elts[i]
        PROVE  /\ arrays[k].elts[i] \in DOMAIN shm
               /\ shm[arrays[k].elts[i]].at = <<k, 0, i>>
    <3>1. a.elts[i] \in DOMAIN s.shm /\ s.shm[a.elts[i]].at = <<k, 0, i>>
      BY <2>3, <2>5 DEF Pointed
    <3> QED
      BY <1>11, <2>4, <2>5, <3>1
  <2>6. CASE k # q
    BY <1>8, <1>12, <2>1, <2>5, <2>6
  <2>7. CASE k = q
    <3>1. /\ b.elts = Append(a.elts, nm)
          /\ arrays[k] = b
      BY <1>7, <1>8, <2>1, <2>7
    <3>2. /\ Len(b.elts) = Len(a.elts) + 1
          /\ DOMAIN b.elts = DOMAIN a.elts \cup {Len(b.elts)}
          /\ b.elts[Len(b.elts)] = nm
          /\ \A j \in DOMAIN a.elts : b.elts[j] = a.elts[j]
      <4>1. nm \in Names(text)
        BY <1>1, <1>3, DeclaredFinite DEF Names
      <4> QED
        BY <2>2, <3>1, <4>1
    <3>3. CASE i \in DOMAIN a.elts
      <4>1. Len(a.elts) <= Capacity[k]
        BY <1>12, <2>2, <3>1, <3>2, ConfigAssumption
      <4> QED
        BY <2>5, <3>1, <3>2, <3>3, <4>1
    <3>4. CASE i = Len(b.elts)
      <4>1. b.moves = 0
        BY <1>7, <1>12, <2>7, <3>1 DEF ArraySound
      <4> QED
        BY <1>11, <2>7, <3>1, <3>2, <3>4, <4>1
    <3> QED
      BY <1>12, <3>1, <3>2, <3>3, <3>4
  <2> QED
    BY <2>6, <2>7
<1>13. Apart(text) => \A k \in ZoneKinds : Pointed(k, arrays[k], shm)
  BY <1>12 DEF Pointed
<1>14. CASE d.at # "http" \/ Clashes(s, d.arg)
  <2>1. Declare(s, d) = Refuse(s)
    BY <1>14 DEF Declare
  <2> QED
    BY <1>1, <2>1, RefuseReading
<1>15. CASE ~(d.at # "http" \/ Clashes(s, d.arg))
  <2>1. Declare(s, d) = [s EXCEPT !.arrays = arrays, !.shm = shm]
    BY <1>2, <1>3, <1>4, <1>5, <1>10, <1>15 DEF Declare
  <2>2. PICK t : t = Declare(s, d)
    OBVIOUS
  <2>3. t = [ok |-> TRUE, arrays |-> arrays, shm |-> shm, raw |-> s.raw]
    BY <1>6, <2>1, <2>2
  <2>4. Reading(text, n, t)
    BY <1>6, <1>8, <1>9, <1>13, <2>3 DEF Reading
  <2> QED
    BY <1>1, <2>2, <2>4
<1> QED
  BY <1>14, <1>15

\* The handlers that set or extend the fields of a block.
LEMMA SetReading ==
  ASSUME NEW text, IsFile(text), NEW n \in 1 .. Len(text), NEW s,
         Reading(text, n - 1, s), s.ok,
         text[n].dir \notin ZoneKinds, text[n].arg # Bad
  PROVE  Reading(text, n, Set(s, text[n]))
<1>1. PICK d : d = text[n]
  OBVIOUS
<1>2. PICK old : old = s.raw[d.at]
  OBVIOUS
<1>3. PICK new : new = Assigned(d)
  OBVIOUS
<1>4. PICK listed :
        listed = [f \in DOMAIN new |->
                    new[f] \cup IF f \in DOMAIN old THEN old[f] ELSE {}]
  OBVIOUS
<1>5. n \in DOMAIN text /\ Directive(d)
  BY <1>1, DeclaredFinite DEF IsFile
<1>6. d.at \in Levels
  BY <1>5 DEF Directive
<1>7. /\ s = [ok |-> s.ok, arrays |-> s.arrays, shm |-> s.shm, raw |-> s.raw]
      /\ s.arrays \in [ZoneKinds -> Arrays(text)]
      /\ DOMAIN s.raw = Levels
      /\ \A k \in ZoneKinds : ArraySound(text, n - 1, k, s.arrays[k])
      /\ Apart(text) => \A k \in ZoneKinds : Pointed(k, s.arrays[k], s.shm)
  BY DEF Reading
<1>8. \A k \in ZoneKinds : ArraySound(text, n, k, s.arrays[k])
  BY <1>7, OtherKinds
<1>9. ASSUME NEW own
      PROVE  Reading(text, n, [s EXCEPT !.raw[d.at] = own])
  <2>1. PICK raw : raw = [s.raw EXCEPT ![d.at] = own]
    OBVIOUS
  <2>2. DOMAIN raw = Levels
    BY <1>7, <2>1
  <2>3. PICK t : t = [s EXCEPT !.raw[d.at] = own]
    OBVIOUS
  <2>4. t = [ok |-> s.ok, arrays |-> s.arrays, shm |-> s.shm, raw |-> raw]
    BY <1>7, <2>1, <2>3
  <2>5. Reading(text, n, t)
    BY <1>7, <1>8, <2>2, <2>4 DEF Reading
  <2> QED
    BY <2>3, <2>5
<1>10. CASE d.dir \in Adding
  <2>1. Set(s, d) = [s EXCEPT !.raw[d.at] = Overlay(listed, old)]
    BY <1>2, <1>3, <1>4, <1>10 DEF Set
  <2> QED
    BY <1>1, <1>9, <2>1
<1>11. CASE /\ d.dir \notin Adding
            /\ d.dir \in Overwriting \/ DOMAIN new \cap DOMAIN old = {}
  <2>1. Set(s, d) = [s EXCEPT !.raw[d.at] = Overlay(new, old)]
    BY <1>2, <1>3, <1>11 DEF Set
  <2> QED
    BY <1>1, <1>9, <2>1
<1>12. CASE /\ d.dir \notin Adding
            /\ ~(d.dir \in Overwriting \/ DOMAIN new \cap DOMAIN old = {})
  <2>1. Set(s, d) = Refuse(s)
    BY <1>2, <1>3, <1>12 DEF Set
  <2> QED
    BY <1>1, <2>1, RefuseReading
<1> QED
  BY <1>10, <1>11, <1>12

\* A directive, whatever it is.
LEMMA HandleReading ==
  ASSUME NEW text, IsFile(text), NEW n \in 1 .. Len(text), NEW s,
         Reading(text, n - 1, s)
  PROVE  Reading(text, n, Handle(s, text[n]))
<1>1. CASE ~s.ok \/ text[n].arg = Bad
  BY <1>1, RefuseReading DEF Handle
<1>2. CASE s.ok /\ text[n].arg # Bad /\ text[n].dir \in ZoneKinds
  BY <1>2, DeclareReading DEF Handle
<1>3. CASE s.ok /\ text[n].arg # Bad /\ text[n].dir \notin ZoneKinds
  BY <1>3, SetReading DEF Handle
<1> QED
  BY <1>1, <1>2, <1>3

\* What is known of a file that has been read.
LEMMA ParsedReading ==
  ASSUME NEW text, IsFile(text)
  PROVE  Reading(text, Len(text), Parsed(text))
<1>1. Len(text) \in Nat
  BY DeclaredFinite
<1>2. PICK st : /\ st[0] = Empty
                /\ \A n \in 1 .. Len(text) : st[n] = Handle(st[n - 1], text[n])
                /\ Parsed(text) = st[Len(text)]
  BY <1>1, ReadInOrder
<1> DEFINE G == {n \in 0 .. Len(text) : Reading(text, n, st[n])}
<1>3. 0 \in G
  BY <1>1, <1>2, EmptyReading
<1>4. \A n \in 1 .. Len(text) : n - 1 \in G => n \in G
  BY <1>1, <1>2, HandleReading
<1>5. Len(text) \in G
  <2> HIDE DEF G
  <2>1. \A n \in 0 .. Len(text) : n \in G
    BY <1>1, <1>3, <1>4, UpTo
  <2> QED
    BY <1>1, <2>1
<1> QED
  BY <1>2, <1>5

-----------------------------------------------------------------------------
(* The merged zones *)

\* A file that loads has been read and merged without an error.
LEMMA LoadedParts ==
  ASSUME NEW text, Load(text).ok
  PROVE  \E st, m : /\ st = Parsed(text) /\ m = Merged(st)
                    /\ st.ok
                    /\ Load(text).conf = m.conf
                    /\ Load(text).live = {st.shm[n].at : n \in DOMAIN st.shm}
<1>1. PICK st : st = Parsed(text)
  OBVIOUS
<1>2. PICK m : m = Merged(st)
  OBVIOUS
<1>3. PICK o : o = Load(text)
  OBVIOUS
<1>4. o = Started(st.shm, m)
  BY <1>1, <1>2, <1>3 DEF Load
<1>5. o.ok
  BY <1>3
<1>6. m.ok
  BY <1>4, <1>5 DEF Started
<1>7. st.ok
  BY <1>2, <1>6 DEF Merged
<1>8. /\ o.conf = m.conf
      /\ o.live = {st.shm[n].at : n \in DOMAIN st.shm}
  BY <1>4, <1>6 DEF Started
<1> QED
  BY <1>1, <1>2, <1>3, <1>7, <1>8

\* The configuration of a block: its own fields over those of its parent.
LEMMA BlockMerged ==
  ASSUME NEW st, NEW l \in ToSet(MergeOrder)
  PROVE  \E parent :
           /\ Merged(st).conf[l] = MergeBlock(st.arrays, st.raw[l], parent)
           /\ \/ parent = st.raw["http"]
              \/ parent = MergeBlock(st.arrays, st.raw["server"], st.raw["http"])
  BY DEF Merged

\* The zones of a block are elements of the arrays.
LEMMA BlockZones ==
  ASSUME NEW arrays, NEW own, NEW parent,
         NEW c, c = MergeBlock(arrays, own, parent)
  PROVE  \E v, w : /\ c.zone = First(arrays, "zone")
                   /\ c.vel_zone = Named(arrays, "velocity_zone", v)
                   /\ c.fcrdns_zone = Named(arrays, "fcrdns_zone", w)
                   /\ c.cs_zone \in {None, First(arrays, "crowdsec_zone")}
<1>1. PICK x : x = Inherit(own, parent)
  OBVIOUS
<1>2. PICK z : z = Bindings(arrays, x)
  OBVIOUS
<1>3. c = Overlay(z, x)
  BY <1>1, <1>2 DEF MergeBlock
<1>4. z = [zone |-> First(arrays, "zone"),
           vel_zone |-> Named(arrays, "velocity_zone", x.velocity),
           fcrdns_zone |-> Named(arrays, "fcrdns_zone", x.fcrdns),
           cs_zone |-> z.cs_zone]
  BY <1>2 DEF Bindings
<1>5. z.cs_zone \in {None, First(arrays, "crowdsec_zone")}
  BY <1>2 DEF Bindings
<1>6. \A f \in DOMAIN z : c[f] = z[f]
  BY <1>3 DEF Overlay
<1> QED
  BY <1>4, <1>5, <1>6

\* What First and Named return is None or an element.
LEMMA FoundElement ==
  ASSUME NEW text, NEW arrays \in [ZoneKinds -> Arrays(text)],
         NEW k \in ZoneKinds,
         NEW z, z = First(arrays, k) \/ \E n : z = Named(arrays, k, n)
  PROVE  \/ z = None
         \/ \E i \in DOMAIN arrays[k].elts : z = <<k, arrays[k].moves, i>>
<1>1. arrays[k].elts \in Seq(Names(text))
  BY DEF Arrays
<1>2. /\ DOMAIN arrays[k].elts \subseteq Nat
      /\ arrays[k].elts # << >> => 1 \in DOMAIN arrays[k].elts
  BY <1>1
<1>3. CASE z = First(arrays, k)
  BY <1>2, <1>3 DEF First, Address
<1>4. ASSUME NEW n, z = Named(arrays, k, n)
      PROVE  \/ z = None
             \/ \E i \in DOMAIN arrays[k].elts : z = <<k, arrays[k].moves, i>>
  <2>1. PICK at : at = {i \in DOMAIN arrays[k].elts : arrays[k].elts[i] = n}
    OBVIOUS
  <2>2. CASE at = {}
    BY <1>4, <2>1, <2>2 DEF Named
  <2>3. CASE at # {}
    <3>1. at \in SUBSET Nat
      BY <1>2, <2>1
    <3>2. Min(at) \in at
      BY <2>3, <3>1, MinIsIn
    <3>3. z = <<k, arrays[k].moves, Min(at)>>
      BY <1>4, <2>1, <2>3 DEF Named, Address
    <3> QED
      BY <2>1, <3>2, <3>3
  <2> QED
    BY <2>2, <2>3
<1> QED
  BY <1>3, <1>4

\* The zones that the blocks of a file are bound to are those that the shared
\* memory points at.
LEMMA ZonesAreLive ==
  ASSUME NEW text, IsFile(text)
  PROVE  ZonesLive(text, Load(text))
<1> DEFINE crowded(k) == Cardinality(Places(text, k)) > Capacity[k]
           twice == \E i, j \in DOMAIN text :
                      /\ i # j /\ {text[i].dir, text[j].dir} \subseteq ZoneKinds
                      /\ text[i].arg.name = text[j].arg.name
           sound(z) ==
             z = None \/ z \in Load(text).live \/ crowded(z[1]) \/ twice
<1> SUFFICES ASSUME Load(text).ok, NEW l \in ToSet(MergeOrder)
             PROVE  /\ sound(Load(text).conf[l].zone)
                    /\ sound(Load(text).conf[l].vel_zone)
                    /\ sound(Load(text).conf[l].fcrdns_zone)
                    /\ sound(Load(text).conf[l].cs_zone)
  BY DEF ZonesLive
<1>1. PICK st : /\ st = Parsed(text) /\ st.ok
                /\ Load(text).conf = Merged(st).conf
                /\ Load(text).live = {st.shm[n].at : n \in DOMAIN st.shm}
  BY LoadedParts
<1>2. PICK arrays : arrays = st.arrays
  OBVIOUS
<1>3. /\ arrays \in [ZoneKinds -> Arrays(text)]
      /\ \A k \in ZoneKinds : ArraySound(text, Len(text), k, arrays[k])
      /\ Apart(text) => \A k \in ZoneKinds : Pointed(k, arrays[k], st.shm)
  BY <1>1, <1>2, ParsedReading DEF Reading
<1>4. twice \/ Apart(text)
  BY DEF Apart
<1>5. ASSUME NEW k \in ZoneKinds, NEW z,
             z = First(arrays, k) \/ \E n : z = Named(arrays, k, n)
      PROVE  sound(z)
  <2>1. CASE \E i \in DOMAIN arrays[k].elts : z = <<k, arrays[k].moves, i>>
    <3>1. PICK i \in DOMAIN arrays[k].elts : z = <<k, arrays[k].moves, i>>
      BY <2>1
    <3>2. PICK a : a = arrays[k]
      OBVIOUS
    <3>3. CASE ~crowded(k) /\ Apart(text)
      <4>1. Len(a.elts) <= Capacity[k]
        <5>1. Len(a.elts) = Cardinality(Places(text, k))
          BY <1>3, <3>2, DeclaredFinite DEF ArraySound
        <5>2. Capacity[k] \in Nat /\ Cardinality(Places(text, k)) \in Nat
          BY ConfigAssumption, DeclaredFinite
        <5> QED
          BY <3>3, <5>1, <5>2
      <4>2. z = <<k, 0, i>>
        BY <1>3, <3>1, <3>2, <4>1 DEF ArraySound
      <4>3. a.elts[i] \in DOMAIN st.shm /\ st.shm[a.elts[i]].at = z
        BY <1>3, <3>1, <3>2, <3>3, <4>1, <4>2 DEF Pointed
      <4> QED
        BY <1>1, <4>3
    <3>4. z[1] = k
      BY <3>1
    <3> QED
      BY <1>4, <3>3, <3>4
  <2> HIDE DEF sound
  <2>2. CASE z = None
    BY <2>2 DEF sound
  <2> QED
    BY <1>3, <1>5, <2>1, <2>2, FoundElement
<1>6. PICK c : c = Load(text).conf[l]
  OBVIOUS
<1>7. PICK own, parent : c = MergeBlock(arrays, own, parent)
  BY <1>1, <1>2, <1>6, BlockMerged
<1>8. PICK v, w : /\ c.zone = First(arrays, "zone")
                  /\ c.vel_zone = Named(arrays, "velocity_zone", v)
                  /\ c.fcrdns_zone = Named(arrays, "fcrdns_zone", w)
                  /\ c.cs_zone \in {None, First(arrays, "crowdsec_zone")}
  BY <1>7, BlockZones
<1>9. sound(None)
  OBVIOUS
<1> HIDE DEF sound
<1> QED
  BY <1>5, <1>6, <1>8, <1>9 DEF ZoneKinds

-----------------------------------------------------------------------------
(* The walk of the static locations *)

\* The locations of two lists.
LEMMA BothLists ==
  ASSUME NEW S, NEW s \in Seq(S), NEW t \in Seq(S)
  PROVE  ToSet(s \o t) = ToSet(s) \cup ToSet(t)
<1>1. /\ Len(s) \in Nat /\ Len(t) \in Nat /\ Len(s \o t) = Len(s) + Len(t)
      /\ DOMAIN s = 1 .. Len(s) /\ DOMAIN t = 1 .. Len(t)
      /\ DOMAIN (s \o t) = 1 .. Len(s) + Len(t)
      /\ s \o t \in Seq(S)
  OBVIOUS
<1>2. \A i \in 1 .. Len(s) : (s \o t)[i] = s[i]
  BY <1>1
<1>3. \A i \in 1 .. Len(t) : (s \o t)[Len(s) + i] = t[i]
  BY <1>1
<1>4. ToSet(s \o t) \subseteq ToSet(s) \cup ToSet(t)
  <2> SUFFICES ASSUME NEW i \in 1 .. Len(s) + Len(t)
               PROVE  (s \o t)[i] \in ToSet(s) \cup ToSet(t)
    BY <1>1 DEF ToSet
  <2>1. CASE i <= Len(s)
    BY <1>1, <1>2, <2>1 DEF ToSet
  <2>2. CASE i > Len(s)
    <3>1. PICK a \in Nat, b \in Nat : a = Len(s) /\ b = Len(t)
      BY <1>1
    <3>2. i - a \in 1 .. b /\ i = a + (i - a)
      BY <2>2, <3>1
    <3>3. PICK j \in 1 .. Len(t) : i = Len(s) + j
      BY <3>1, <3>2
    <3> QED
      BY <1>1, <1>3, <3>3 DEF ToSet
  <2> QED
    BY <1>1, <2>1, <2>2
<1>5. ToSet(s) \subseteq ToSet(s \o t)
  BY <1>1, <1>2 DEF ToSet
<1>6. ToSet(t) \subseteq ToSet(s \o t)
  <2> SUFFICES ASSUME NEW i \in 1 .. Len(t) PROVE t[i] \in ToSet(s \o t)
    BY <1>1 DEF ToSet
  <2>1. Len(s) + i \in 1 .. Len(s) + Len(t)
    BY <1>1
  <2> QED
    BY <1>1, <1>3, <2>1 DEF ToSet
<1> QED
  BY <1>1, <1>4, <1>5, <1>6

\* The locations of a node.
LEMMA NodeLocs ==
  ASSUME NEW n \in DOMAIN Tree
  PROVE  /\ Here(n) \in Seq(ToSet(Locs))
         /\ ToSet(Here(n)) = {Tree[n].exact, Tree[n].inclusive} \ {None}
<1>1. ASSUME NEW l \in ToSet(Locs) \cup {None}
      PROVE  /\ Optional(l) \in Seq(ToSet(Locs))
             /\ ToSet(Optional(l)) = {l} \ {None}
  <2>1. CASE l = None
    <3>1. Optional(l) = << >>
      BY <2>1 DEF Optional
    <3>2. << >> \in Seq(ToSet(Locs)) /\ DOMAIN << >> = {}
      OBVIOUS
    <3> QED
      BY <2>1, <3>1, <3>2 DEF ToSet
  <2>2. CASE l # None
    <3>1. Optional(l) = <<l>>
      BY <2>2 DEF Optional
    <3>2. <<l>> \in Seq(ToSet(Locs)) /\ DOMAIN <<l>> = {1} /\ <<l>>[1] = l
      BY <2>2
    <3> QED
      BY <2>2, <3>1, <3>2 DEF ToSet
  <2> QED
    BY <2>1, <2>2
<1>2. PICK x \in ToSet(Locs) \cup {None}, y \in ToSet(Locs) \cup {None} :
        x = Tree[n].exact /\ y = Tree[n].inclusive
  BY TreeAssumption
<1>3. /\ Optional(x) \o Optional(y) \in Seq(ToSet(Locs))
      /\ ToSet(Optional(x) \o Optional(y))
           = ToSet(Optional(x)) \cup ToSet(Optional(y))
  <2>1. /\ Optional(x) \in Seq(ToSet(Locs))
        /\ Optional(y) \in Seq(ToSet(Locs))
    BY <1>1
  <2>2. ToSet(Optional(x) \o Optional(y))
          = ToSet(Optional(x)) \cup ToSet(Optional(y))
    BY <2>1, BothLists
  <2> QED
    BY <2>1, <2>2
<1> QED
  BY <1>1, <1>2, <1>3 DEF Here

\* The tree has its children before their parents.
LEMMA TreeFacts ==
  /\ Len(Tree) \in Nat /\ DOMAIN Tree = 1 .. Len(Tree)
  /\ \A n \in 1 .. Len(Tree) :
       /\ {Tree[n].left, Tree[n].tree, Tree[n].right} \subseteq 0 .. n - 1
       /\ n < Len(Tree) =>
            \E p \in 1 .. Len(Tree) :
              n < p /\ n \in {Tree[p].left, Tree[p].tree, Tree[p].right}
<1>1. Len(Tree) \in Nat /\ DOMAIN Tree = 1 .. Len(Tree)
  BY TreeAssumption
<1>2. \A n \in 1 .. Len(Tree) :
        {Tree[n].left, Tree[n].tree, Tree[n].right} \subseteq 0 .. n - 1
  BY <1>1, TreeAssumption DEF Children
<1>3. ASSUME NEW n \in 1 .. Len(Tree), n < Len(Tree)
      PROVE  \E p \in 1 .. Len(Tree) :
               n < p /\ n \in {Tree[p].left, Tree[p].tree, Tree[p].right}
  <2>1. PICK p \in 1 .. Len(Tree) :
          n \in {Tree[p].left, Tree[p].tree, Tree[p].right}
    BY <1>1, <1>3, TreeAssumption DEF Children
  <2>2. n \in 0 .. p - 1
    BY <1>2, <2>1
  <2> QED
    BY <2>1, <2>2
<1> QED
  BY <1>1, <1>2, <1>3

\* What the walk finds from node n on.
WalkStep(g, n) ==
  IF n = 0 THEN << >>
  ELSE Here(n) \o g[Tree[n].left] \o g[Tree[n].tree] \o g[Tree[n].right]

LEMMA WalkFrom ==
  \E from : /\ from[0] = << >>
            /\ \A n \in 1 .. Len(Tree) : from[n] = WalkStep(from, n)
            /\ Walk = from[Len(Tree)]
<1> DEFINE G == {m \in 0 .. Len(Tree) :
                   \E g : g = [n \in 0 .. m |-> WalkStep(g, n)]}
<1>0. Len(Tree) \in Nat
  BY TreeFacts
<1>1. 0 \in G
  <2>1. PICK g : g = [n \in 0 .. 0 |-> << >>]
    OBVIOUS
  <2>2. g = [n \in 0 .. 0 |-> WalkStep(g, n)]
    BY <2>1 DEF WalkStep
  <2> QED
    BY <1>0, <2>2
<1>2. ASSUME NEW m \in 1 .. Len(Tree), m - 1 \in G PROVE m \in G
  <2>1. PICK g : g = [n \in 0 .. m - 1 |-> WalkStep(g, n)]
    BY <1>2
  <2>2. PICK h : h = [n \in 0 .. m |-> IF n = m THEN WalkStep(g, m) ELSE g[n]]
    OBVIOUS
  <2>3. \A n \in 0 .. m - 1 : h[n] = g[n]
    BY <2>2
  <2>4. ASSUME NEW n \in 0 .. m PROVE h[n] = WalkStep(h, n)
    <3>1. h[n] = WalkStep(g, n)
      <4>1. CASE n = m
        BY <2>2, <4>1
      <4>2. CASE n # m
        <5>1. n \in 0 .. m - 1
          BY <4>2
        <5>2. g[n] = WalkStep(g, n)
          BY <2>1, <5>1
        <5> QED
          BY <2>3, <5>1, <5>2
      <4> QED
        BY <4>1, <4>2
    <3>2. CASE n = 0
      BY <3>1, <3>2 DEF WalkStep
    <3>3. CASE n # 0
      <4>1. n \in 1 .. Len(Tree)
        BY <1>0, <3>3
      <4>2. PICK a, b, c : a = Tree[n].left /\ b = Tree[n].tree /\ c = Tree[n].right
        OBVIOUS
      <4>3. {a, b, c} \subseteq 0 .. n - 1
        BY <4>1, <4>2, TreeFacts
      <4>4. {a, b, c} \subseteq 0 .. m - 1
        BY <1>0, <4>3
      <4>5. h[a] = g[a] /\ h[b] = g[b] /\ h[c] = g[c]
        BY <2>3, <4>4
      <4> QED
        BY <3>1, <4>2, <4>5 DEF WalkStep
    <3> QED
      BY <3>2, <3>3
  <2>5. h = [n \in 0 .. m |-> WalkStep(h, n)]
    BY <2>2, <2>4
  <2> QED
    BY <2>5
<1>3. Len(Tree) \in G
  <2>1. \A m \in 1 .. Len(Tree) : m - 1 \in G => m \in G
    BY <1>2
  <2> HIDE DEF G
  <2>2. \A n \in 0 .. Len(Tree) : n \in G
    BY <1>0, <1>1, <2>1, UpTo
  <2> QED
    BY <1>0, <2>2
<1>4. PICK from : /\ from = [n \in 0 .. Len(Tree) |-> WalkStep(from, n)]
                  /\ Walk = from[Len(Tree)]
  BY <1>3 DEF Walk, WalkStep
<1>5. \A n \in 0 .. Len(Tree) : from[n] = WalkStep(from, n)
  BY <1>4
<1>6. from[0] = << >>
  BY <1>0, <1>5 DEF WalkStep
<1> QED
  BY <1>0, <1>4, <1>5, <1>6

\* The locations below a node: its own and those below its children.
LEMMA BelowNode ==
  ASSUME NEW from, NEW n \in 1 .. Len(Tree), from[n] = WalkStep(from, n),
         \A m \in 0 .. n - 1 : from[m] \in Seq(ToSet(Locs))
  PROVE  /\ from[n] \in Seq(ToSet(Locs))
         /\ ToSet(from[n]) = ToSet(Here(n)) \cup ToSet(from[Tree[n].left])
                               \cup ToSet(from[Tree[n].tree])
                               \cup ToSet(from[Tree[n].right])
<1>1. PICK a, b, c : /\ a = from[Tree[n].left] /\ b = from[Tree[n].tree]
                     /\ c = from[Tree[n].right]
  OBVIOUS
<1>2. /\ a \in Seq(ToSet(Locs)) /\ b \in Seq(ToSet(Locs))
      /\ c \in Seq(ToSet(Locs))
  BY <1>1, TreeFacts
<1>3. Here(n) \in Seq(ToSet(Locs))
  BY NodeLocs, TreeFacts
<1>4. PICK x, y, z : x = Here(n) \o a /\ y = x \o b /\ z = y \o c
  OBVIOUS
<1>5. x \in Seq(ToSet(Locs)) /\ y \in Seq(ToSet(Locs)) /\ z \in Seq(ToSet(Locs))
  BY <1>2, <1>3, <1>4
<1>6. /\ ToSet(x) = ToSet(Here(n)) \cup ToSet(a)
      /\ ToSet(y) = ToSet(x) \cup ToSet(b)
      /\ ToSet(z) = ToSet(y) \cup ToSet(c)
  <2>1. ToSet(Here(n) \o a) = ToSet(Here(n)) \cup ToSet(a)
    BY <1>2, <1>3, BothLists
  <2>2. ToSet(x \o b) = ToSet(x) \cup ToSet(b)
    BY <1>2, <1>5, BothLists
  <2>3. ToSet(y \o c) = ToSet(y) \cup ToSet(c)
    BY <1>2, <1>5, BothLists
  <2> QED
    BY <1>4, <2>1, <2>2, <2>3
<1>7. n # 0
  BY TreeFacts
<1>8. from[n] = z
  BY <1>1, <1>4, <1>5, <1>6, <1>7 DEF WalkStep
<1> QED
  BY <1>1, <1>4, <1>5, <1>6, <1>8

\* The walk finds the static locations, all of them and no other, in any tree.
LEMMA WalkExact == Walk \in Seq(ToSet(Locs)) /\ ToSet(Walk) = Static
<1>1. PICK from : /\ from[0] = << >>
                  /\ \A n \in 1 .. Len(Tree) : from[n] = WalkStep(from, n)
                  /\ Walk = from[Len(Tree)]
  BY WalkFrom
<1>2. PICK N \in Nat : N = Len(Tree) /\ DOMAIN Tree = 1 .. N
  BY TreeFacts
<1>3. \A n \in 1 .. Len(Tree) : ToSet(Here(n)) \subseteq Static
  BY <1>2, NodeLocs, TreeAssumption DEF Static
<1> DEFINE Good(n) == from[n] \in Seq(ToSet(Locs)) /\ ToSet(from[n]) \subseteq Static
           G == {m \in 0 .. Len(Tree) : \A n \in 0 .. m : Good(n)}
<1>4. \A n \in 0 .. Len(Tree) : Good(n)
  <2>1. 0 \in G
    <3>1. from[0] \in Seq(ToSet(Locs)) /\ ToSet(from[0]) = {}
      <4>1. << >> \in Seq(ToSet(Locs)) /\ DOMAIN << >> = {}
        OBVIOUS
      <4> QED
        BY <1>1, <4>1 DEF ToSet
    <3> QED
      BY <1>2, <3>1
  <2>2. ASSUME NEW m \in 1 .. Len(Tree), m - 1 \in G PROVE m \in G
    <3>1. \A n \in 0 .. m - 1 : Good(n)
      BY <2>2
    <3>2. /\ from[m] \in Seq(ToSet(Locs))
          /\ ToSet(from[m]) = ToSet(Here(m)) \cup ToSet(from[Tree[m].left])
                                \cup ToSet(from[Tree[m].tree])
                                \cup ToSet(from[Tree[m].right])
      BY <1>1, <3>1, BelowNode
    <3>3. Good(m)
      BY <1>3, <3>1, <3>2, TreeFacts
    <3> HIDE DEF Good
    <3>4. \A n \in 0 .. m : Good(n)
      BY <3>1, <3>3
    <3> QED
      BY <3>4
  <2>3. \A n \in 1 .. Len(Tree) : n - 1 \in G => n \in G
    BY <2>2
  <2>4. Len(Tree) \in G
    <3> HIDE DEF G
    <3>1. \A n \in 0 .. Len(Tree) : n \in G
      BY <1>2, <2>1, <2>3, UpTo
    <3> QED
      BY <1>2, <3>1
  <2> QED
    BY <2>4
<1>5. ASSUME NEW n \in 1 .. Len(Tree)
      PROVE  ToSet(from[n]) = ToSet(Here(n)) \cup ToSet(from[Tree[n].left])
                                \cup ToSet(from[Tree[n].tree])
                                \cup ToSet(from[Tree[n].right])
  <2>1. \A m \in 0 .. n - 1 : from[m] \in Seq(ToSet(Locs))
    BY <1>2, <1>4
  <2> QED
    BY <1>1, <2>1, BelowNode
<1> DEFINE H == {j \in 0 .. N :
                   \A n \in 1 .. N :
                     n >= N - j => ToSet(from[n]) \subseteq ToSet(Walk)}
<1>6. \A n \in 1 .. N : ToSet(from[n]) \subseteq ToSet(Walk)
  <2>1. 0 \in H
    <3>1. \A n \in 1 .. N : n >= N - 0 => n = N
      BY <1>2
    <3> QED
      BY <1>1, <1>2, <3>1
  <2>2. ASSUME NEW j \in 1 .. N, j - 1 \in H PROVE j \in H
    <3>1. \A n \in 1 .. N :
            n >= N - (j - 1) => ToSet(from[n]) \subseteq ToSet(Walk)
      BY <2>2
    <3>2. ASSUME NEW n \in 1 .. N, n >= N - j
          PROVE  ToSet(from[n]) \subseteq ToSet(Walk)
      <4>1. CASE n >= N - (j - 1)
        BY <3>1, <4>1
      <4>2. CASE n < N - (j - 1)
        <5>1. n < N
          BY <1>2, <4>2
        <5>2. PICK p \in 1 .. N :
                n < p /\ n \in {Tree[p].left, Tree[p].tree, Tree[p].right}
          BY <1>2, <5>1, TreeFacts
        <5>3. p >= N - (j - 1)
          BY <1>2, <3>2, <4>2, <5>2
        <5>4. ToSet(from[p]) \subseteq ToSet(Walk)
          BY <3>1, <5>3
        <5>5. ToSet(from[n]) \subseteq ToSet(from[p])
          BY <1>2, <1>5, <5>2
        <5> QED
          BY <5>4, <5>5
      <4> QED
        BY <1>2, <4>1, <4>2
    <3> QED
      BY <1>2, <3>2
  <2>3. \A j \in 1 .. N : j - 1 \in H => j \in H
    BY <2>2
  <2>4. N \in H
    <3> HIDE DEF H
    <3>1. \A n \in 0 .. N : n \in H
      BY <1>2, <2>1, <2>3, UpTo
    <3> QED
      BY <1>2, <3>1
  <2>5. \A n \in 1 .. N : n >= N - N
    BY <1>2
  <2> QED
    BY <2>4, <2>5
<1>7. Static \subseteq ToSet(Walk)
  <2> SUFFICES ASSUME NEW l \in Static PROVE l \in ToSet(Walk)
    OBVIOUS
  <2>1. PICK n \in 1 .. N :
          l \in ToSet(Locs) /\ l \in {Tree[n].exact, Tree[n].inclusive}
    BY <1>2 DEF Static
  <2>2. l \in ToSet(Here(n))
    BY <1>2, <2>1, NodeLocs, Blocks
  <2> QED
    BY <1>2, <1>5, <1>6, <2>2
<1>8. Walk \in Seq(ToSet(Locs)) /\ ToSet(Walk) \subseteq Static
  BY <1>1, <1>2, <1>4
<1> QED
  BY <1>7, <1>8

-----------------------------------------------------------------------------
(* The timers *)

\* The smaller of two numbers.
LEMMA MinOfTwo ==
  ASSUME NEW a \in Nat, NEW b \in Nat
  PROVE  Min({a, b}) \in Nat /\ Min({a, b}) <= a /\ Min({a, b}) <= b
         /\ Min({a, b}) \in {a, b}
<1>1. PICK i \in {a, b} : \A j \in {a, b} : i <= j
  OBVIOUS
<1>2. Min({a, b}) = CHOOSE x \in {a, b} : \A y \in {a, b} : x <= y
  BY DEF Min
<1>3. Min({a, b}) \in {a, b} /\ \A y \in {a, b} : Min({a, b}) <= y
  BY <1>1, <1>2
<1> QED
  BY <1>3

\* sentinel_feed_collect goes from location to location.
LEMMA CollectInOrder ==
  ASSUME NEW conf
  PROVE  \E fs : /\ fs[0] = << >>
                 /\ \A n \in 1 .. Len(Walk) :
                      fs[n] = FeedAdd(fs[n - 1], conf[Walk[n]])
                 /\ Collected(conf) = fs[Len(Walk)]
<1> DEFINE Step(g, n) ==
             IF n = 0 THEN << >> ELSE FeedAdd(g[n - 1], conf[Walk[n]])
           G == {m \in 0 .. Len(Walk) :
                   \E g : g = [n \in 0 .. m |-> Step(g, n)]}
<1>0. Len(Walk) \in Nat
  BY WalkExact
<1>1. 0 \in G
  <2>1. PICK g : g = [n \in 0 .. 0 |-> << >>]
    OBVIOUS
  <2>2. g = [n \in 0 .. 0 |-> Step(g, n)]
    BY <2>1
  <2> QED
    BY <1>0, <2>2
<1>2. ASSUME NEW m \in 1 .. Len(Walk), m - 1 \in G PROVE m \in G
  <2>1. PICK g : g = [n \in 0 .. m - 1 |-> Step(g, n)]
    BY <1>2
  <2>2. PICK h : h = [n \in 0 .. m |-> IF n = m
                                       THEN FeedAdd(g[m - 1], conf[Walk[m]])
                                       ELSE g[n]]
    OBVIOUS
  <2>3. \A n \in 0 .. m - 1 : h[n] = g[n]
    BY <2>2
  <2>4. h[m] = Step(h, m)
    BY <2>2, <2>3
  <2>5. \A n \in 0 .. m - 1 : h[n] = Step(h, n)
    <3> SUFFICES ASSUME NEW n \in 0 .. m - 1 PROVE h[n] = Step(h, n)
      OBVIOUS
    <3>1. g[n] = Step(g, n)
      BY <2>1
    <3>2. n # 0 => n - 1 \in 0 .. m - 1
      OBVIOUS
    <3> QED
      BY <2>3, <3>1, <3>2
  <2>6. \A n \in 0 .. m : h[n] = Step(h, n)
    BY <2>4, <2>5
  <2> HIDE DEF Step
  <2>7. h = [n \in 0 .. m |-> Step(h, n)]
    BY <2>2, <2>6
  <2> QED
    BY <2>7
<1>3. Len(Walk) \in G
  <2>1. \A m \in 1 .. Len(Walk) : m - 1 \in G => m \in G
    BY <1>2
  <2> HIDE DEF G
  <2>2. \A n \in 0 .. Len(Walk) : n \in G
    BY <1>0, <1>1, <2>1, UpTo
  <2> QED
    BY <1>0, <2>2
<1>4. PICK fs : /\ fs = [n \in 0 .. Len(Walk) |-> Step(fs, n)]
                /\ Collected(conf) = fs[Len(Walk)]
  BY <1>3 DEF Collected
<1> QED
  BY <1>0, <1>4

\* The feed of location l, and the locations that have one.
FeedOf(conf, l) == <<conf[l].crowdsec_feed, conf[l].cs_zone>>

Fed(conf, S) == {FeedOf(conf, l) : l \in {m \in S : conf[m].crowdsec_feed # None}}

\* fs lists the feeds of the locations S, each of them once.
Enumerates(fs, conf, S) ==
  /\ fs \in Seq(Fed(conf, S))
  /\ IsInjective(fs)
  /\ ToSet(fs) = Fed(conf, S)

\* One more location.
LEMMA AddFeed ==
  ASSUME NEW conf, NEW S, NEW l, NEW fs, Enumerates(fs, conf, S),
         conf[l].crowdsec_feed # None => conf[l].cs_zone # None
  PROVE  Enumerates(FeedAdd(fs, conf[l]), conf, S \cup {l})
<1>0. PICK c, gs : c = conf[l] /\ gs = FeedAdd(fs, c)
  OBVIOUS
<1> SUFFICES Enumerates(gs, conf, S \cup {l})
  BY <1>0
<1>1. PICK x : x = FeedOf(conf, l) /\ x = <<c.crowdsec_feed, c.cs_zone>>
  BY <1>0 DEF FeedOf
<1>2. PICK T : T = Fed(conf, S \cup {l})
  OBVIOUS
<1>3. Fed(conf, S) \subseteq T
  BY <1>2 DEF Fed
<1>4. /\ fs \in Seq(Fed(conf, S)) /\ fs \in Seq(T)
      /\ Len(fs) \in Nat /\ DOMAIN fs = 1 .. Len(fs)
      /\ IsInjective(fs) /\ ToSet(fs) = Fed(conf, S)
  BY <1>3 DEF Enumerates
<1>5. x[1] = c.crowdsec_feed /\ x[2] = c.cs_zone
  BY <1>1
<1>6. CASE c.crowdsec_feed = None
  <2>1. gs = fs
    BY <1>0, <1>6 DEF FeedAdd
  <2>2. T = Fed(conf, S)
    BY <1>0, <1>2, <1>6 DEF Fed
  <2> QED
    BY <1>2, <2>1, <2>2 DEF Enumerates
<1>7. CASE c.crowdsec_feed # None
  <2>1. T = Fed(conf, S) \cup {x}
    BY <1>0, <1>1, <1>2, <1>7 DEF Fed
  <2>2. gs = IF x \in ToSet(fs) THEN fs ELSE Append(fs, x)
    BY <1>0, <1>1, <1>5, <1>7 DEF FeedAdd
  <2>3. CASE x \in ToSet(fs)
    <3>1. T = Fed(conf, S)
      BY <1>4, <2>1, <2>3
    <3> QED
      BY <1>2, <2>2, <2>3, <3>1 DEF Enumerates
  <2>4. CASE x \notin ToSet(fs)
    <3>1. gs = Append(fs, x) /\ x \in T
      BY <2>1, <2>2, <2>4
    <3>2. /\ gs \in Seq(T) /\ DOMAIN gs = DOMAIN fs \cup {Len(fs) + 1}
          /\ \A i \in DOMAIN fs : gs[i] = fs[i]
          /\ gs[Len(fs) + 1] = x
      BY <1>4, <3>1
    <3>3. \A i \in DOMAIN fs : fs[i] \in ToSet(fs)
      BY DEF ToSet
    <3>4. IsInjective(gs)
      BY <1>4, <2>4, <3>2, <3>3 DEF IsInjective
    <3>5. ToSet(gs) = ToSet(fs) \cup {x}
      BY <3>2 DEF ToSet
    <3> QED
      BY <1>2, <1>4, <2>1, <3>2, <3>4, <3>5 DEF Enumerates
  <2> QED
    BY <2>3, <2>4
<1> QED
  BY <1>6, <1>7

\* Each feed of a static location is collected, once.
LEMMA CollectExact ==
  ASSUME NEW conf,
         \A l \in Static : conf[l].crowdsec_feed # None => conf[l].cs_zone # None
  PROVE  /\ Collected(conf) \in Seq(Fed(conf, Static))
         /\ IsInjective(Collected(conf))
         /\ ToSet(Collected(conf)) = Fed(conf, Static)
<1>1. PICK fs : /\ fs[0] = << >>
                /\ \A n \in 1 .. Len(Walk) :
                     fs[n] = FeedAdd(fs[n - 1], conf[Walk[n]])
                /\ Collected(conf) = fs[Len(Walk)]
  BY CollectInOrder
<1>2. PICK N \in Nat : N = Len(Walk) /\ DOMAIN Walk = 1 .. N
  BY WalkExact
<1> DEFINE Seen(n) == {Walk[i] : i \in 1 .. n}
           G == {n \in 0 .. N : Enumerates(fs[n], conf, Seen(n))}
<1>3. 0 \in G
  <2>1. Seen(0) = {}
    OBVIOUS
  <2>2. Fed(conf, {}) = {}
    BY DEF Fed
  <2>3. << >> \in Seq({}) /\ DOMAIN << >> = {}
    OBVIOUS
  <2>4. Enumerates(fs[0], conf, Seen(0))
    BY <1>1, <2>1, <2>2, <2>3 DEF Enumerates, IsInjective, ToSet
  <2> QED
    BY <2>4
<1>4. ASSUME NEW n \in 1 .. N, n - 1 \in G PROVE n \in G
  <2>1. Seen(n) = Seen(n - 1) \cup {Walk[n]}
    <3>1. 1 .. n = (1 .. n - 1) \cup {n}
      OBVIOUS
    <3> QED
      BY <3>1
  <2>2. Walk[n] \in Static
    BY <1>2, WalkExact DEF ToSet
  <2>3. fs[n] = FeedAdd(fs[n - 1], conf[Walk[n]])
    BY <1>1, <1>2
  <2>4. conf[Walk[n]].crowdsec_feed # None => conf[Walk[n]].cs_zone # None
    BY <2>2
  <2>5. Enumerates(fs[n - 1], conf, Seen(n - 1))
    BY <1>4
  <2> HIDE DEF Seen
  <2>6. Enumerates(FeedAdd(fs[n - 1], conf[Walk[n]]), conf, Seen(n - 1) \cup {Walk[n]})
    BY <2>4, <2>5, AddFeed
  <2>7. Enumerates(fs[n], conf, Seen(n))
    BY <2>1, <2>3, <2>6
  <2> QED
    BY <2>7
<1>5. \A n \in 1 .. N : n - 1 \in G => n \in G
  BY <1>4
<1>6. N \in G
  <2> HIDE DEF G
  <2>1. \A n \in 0 .. N : n \in G
    BY <1>3, <1>5, UpTo
  <2> QED
    BY <2>1
<1>7. Seen(N) = Static
  <2>1. Seen(N) = ToSet(Walk)
    BY <1>2 DEF ToSet
  <2> QED
    BY <2>1, WalkExact
<1> QED
  BY <1>1, <1>2, <1>6, <1>7 DEF Enumerates

\* What the worker arms: as many of them as there are timers.
LEMMA FeedsExact ==
  ASSUME NEW conf,
         \A l \in Static : conf[l].crowdsec_feed # None => conf[l].cs_zone # None
  PROVE  /\ IsInjective(Feeds(conf))
         /\ ToSet(Feeds(conf)) \subseteq Fed(conf, Static)
         /\ Len(Feeds(conf)) = Min({Cardinality(Fed(conf, Static)), FeedTimers})
<1>1. PICK T : T = Fed(conf, Static)
  OBVIOUS
<1>2. PICK c \in Seq(T) : c = Collected(conf) /\ IsInjective(c) /\ ToSet(c) = T
  BY <1>1, CollectExact
<1>3. PICK n \in Nat : n = Len(c) /\ DOMAIN c = 1 .. n
  BY <1>2
<1>4. Cardinality(T) = n
  <2>1. c \in Bijection(1 .. n, T)
    <3>1. c \in [1 .. n -> T]
      BY <1>2, <1>3
    <3>2. \A t \in T : \E i \in 1 .. n : c[i] = t
      BY <1>2, <1>3 DEF ToSet
    <3> QED
      BY <1>2, <1>3, <3>1, <3>2 DEF Bijection, Injection, Surjection, IsInjective
  <2>2. IsFiniteSet(1 .. n) /\ Cardinality(1 .. n) = n
    BY FS_Interval
  <2> QED
    BY <2>1, <2>2, FS_Bijection DEF ExistsBijection
<1>5. FeedTimers \in Nat
  BY ConfigAssumption
<1>6. PICK m \in Nat : m = Min({n, FeedTimers}) /\ m <= n
  BY <1>5, MinOfTwo
<1>7. PICK f : f = SubSeq(c, 1, m)
  OBVIOUS
<1>8. /\ Len(f) = m /\ DOMAIN f = 1 .. m
      /\ \A i \in 1 .. m : f[i] = c[i]
  <2>1. \A i \in 1 .. m : c[i] \in T
    BY <1>2, <1>3, <1>6
  <2>2. /\ f \in Seq(T)
        /\ Len(f) = IF 1 <= m THEN m - 1 + 1 ELSE 0
        /\ \A i \in 1 .. m - 1 + 1 : f[i] = c[1 + i - 1]
    BY <1>7, <2>1, SubSeqProperties
  <2>3. Len(f) = m /\ m - 1 + 1 = m /\ \A i \in 1 .. m : 1 + i - 1 = i
    BY <2>2
  <2>4. DOMAIN f = 1 .. m
    BY <2>2, <2>3
  <2> QED
    BY <2>2, <2>3, <2>4
<1>9. Feeds(conf) = f
  BY <1>2, <1>3, <1>6, <1>7 DEF Feeds
<1>10. 1 .. m \subseteq 1 .. n
  BY <1>6
<1>11. IsInjective(f)
  BY <1>2, <1>3, <1>8, <1>10 DEF IsInjective
<1>12. ToSet(f) \subseteq T
  BY <1>2, <1>3, <1>8, <1>10 DEF ToSet
<1> QED
  BY <1>1, <1>4, <1>6, <1>8, <1>9, <1>11, <1>12

\* What the server and the static locations have of field f.
Had(conf, f) == {conf[l][f] : l \in {"server"} \cup Static} \ {None}

\* The ring or sink that the worker serves is that of the server or of a static
\* location, if one has it.
LEMMA ArmedExact ==
  ASSUME NEW conf, NEW f
  PROVE  IF Had(conf, f) = {} THEN Armed(conf, f) = None
         ELSE Armed(conf, f) \in Had(conf, f)
<1>1. PICK blocks : blocks = <<"server">> \o Walk
  OBVIOUS
<1>2. Walk \in Seq(ToSet(Locs)) /\ Locs \in Seq(STRING) /\ ToSet(Walk) = Static
  BY WalkExact, ConfigAssumption
<1>3. DOMAIN blocks \subseteq Nat /\ ToSet(blocks) = {"server"} \cup Static
  <2>1. PICK S : S = {"server"} \cup ToSet(Locs)
    OBVIOUS
  <2>2. <<"server">> \in Seq(S) /\ Walk \in Seq(S)
    BY <1>2, <2>1
  <2>3. blocks \in Seq(S) /\ ToSet(blocks) = ToSet(<<"server">>) \cup ToSet(Walk)
    <3>1. ToSet(<<"server">> \o Walk) = ToSet(<<"server">>) \cup ToSet(Walk)
      <4>1. PICK h, t : h = <<"server">> /\ t = Walk
        OBVIOUS
      <4>2. h \in Seq(S) /\ t \in Seq(S)
        BY <2>2, <4>1
      <4>3. ToSet(h \o t) = ToSet(h) \cup ToSet(t)
        BY <4>2, BothLists
      <4> QED
        BY <4>1, <4>3
    <3> QED
      BY <1>1, <2>2, <3>1
  <2>4. ToSet(<<"server">>) = {"server"}
    <3>1. DOMAIN <<"server">> = {1} /\ <<"server">>[1] = "server"
      OBVIOUS
    <3> QED
      BY <3>1 DEF ToSet
  <2> QED
    BY <1>2, <2>3, <2>4
<1>4. PICK having : having = {i \in DOMAIN blocks : conf[blocks[i]][f] # None}
  OBVIOUS
<1>5. /\ having = {} => Had(conf, f) = {}
      /\ \A i \in having : conf[blocks[i]][f] \in Had(conf, f)
  <2>1. \A i \in DOMAIN blocks : blocks[i] \in {"server"} \cup Static
    BY <1>3 DEF ToSet
  <2>2. \A l \in {"server"} \cup Static : \E i \in DOMAIN blocks : l = blocks[i]
    BY <1>3 DEF ToSet
  <2>3. having = {} => Had(conf, f) = {}
    BY <1>4, <2>2 DEF Had
  <2>4. \A i \in having : conf[blocks[i]][f] \in Had(conf, f)
    BY <1>4, <2>1 DEF Had
  <2> QED
    BY <2>3, <2>4
<1>6. CASE having = {}
  <2>1. Armed(conf, f) = None
    BY <1>1, <1>4, <1>6 DEF Armed
  <2> QED
    BY <1>5, <1>6, <2>1
<1>7. CASE having # {}
  <2>1. having \in SUBSET Nat
    BY <1>3, <1>4
  <2>2. Min(having) \in having
    BY <1>7, <2>1, MinIsIn
  <2>3. Armed(conf, f) = conf[blocks[Min(having)]][f]
    BY <1>1, <1>4, <1>7 DEF Armed
  <2> QED
    BY <1>5, <2>2, <2>3
<1> QED
  BY <1>6, <1>7

\* A file that loads has a zone for every feed, and the timers of TimersExact.
LEMMA LoadedTimers ==
  ASSUME NEW text
  PROVE  TimersExact(Load(text))
<1>1. PICK o : o = Load(text)
  OBVIOUS
<1> SUFFICES ASSUME o.ok PROVE TimersExact(o)
  BY <1>1 DEF TimersExact
<1>2. PICK st, m : /\ m = Merged(st) /\ o = Started(st.shm, m)
  BY <1>1 DEF Load
<1>3. m.ok
  BY <1>2 DEF Started
<1>4. PICK conf, t : conf = m.conf /\ t = Timers(o)
  OBVIOUS
<1>5. /\ o.conf = conf /\ t.feeds = Feeds(conf)
      /\ t.push = Armed(conf, "redis_push_zone")
      /\ t.sink = Armed(conf, "cs_sink_zone")
  BY <1>2, <1>3, <1>4 DEF Started, Timers
<1>6. \A l \in ToSet(MergeOrder) : Resolves(conf[l])
  BY <1>2, <1>3, <1>4 DEF Merged
<1>7. ASSUME NEW l \in Static, conf[l].crowdsec_feed # None
      PROVE  conf[l].cs_zone # None
  <2>1. Resolves(conf[l])
    BY <1>6, LocIsBlock DEF Static
  <2> QED
    BY <1>7, <2>1 DEF Resolves, NeedsBans
<1>8. /\ IsInjective(t.feeds)
      /\ ToSet(t.feeds) \subseteq Fed(conf, Static)
      /\ Len(t.feeds) = Min({Cardinality(Fed(conf, Static)), FeedTimers})
  BY <1>5, <1>7, FeedsExact
<1>9. /\ IF Had(conf, "redis_push_zone") = {} THEN t.push = None
         ELSE t.push \in Had(conf, "redis_push_zone")
      /\ IF Had(conf, "cs_sink_zone") = {} THEN t.sink = None
         ELSE t.sink \in Had(conf, "cs_sink_zone")
  BY <1>5, ArmedExact
<1>10. Fed(conf, Static)
         = {<<conf[l].crowdsec_feed, conf[l].cs_zone>> :
              l \in {b \in Static : conf[b].crowdsec_feed # None}}
  BY DEF Fed, FeedOf
<1>11. TimersExact(o) <=>
         /\ IsInjective(t.feeds)
         /\ ToSet(t.feeds) \subseteq Fed(conf, Static)
         /\ Len(t.feeds) = Min({Cardinality(Fed(conf, Static)), FeedTimers})
         /\ IF Had(conf, "redis_push_zone") = {} THEN t.push = None
            ELSE t.push \in Had(conf, "redis_push_zone")
         /\ IF Had(conf, "cs_sink_zone") = {} THEN t.sink = None
            ELSE t.sink \in Had(conf, "cs_sink_zone")
  <2>1. o.conf = conf /\ t = Timers(o)
    BY <1>4, <1>5
  <2> QED
    BY <2>1, <1>10, Zenon DEF TimersExact, Had
<1> QED
  BY <1>8, <1>9, <1>11

-----------------------------------------------------------------------------
(* The theorems about files *)

\* For any file, any number of locations and any sizes of the arrays: a file
\* that is accepted binds its blocks to zones that sentinel_shm_init_zone has
\* connected, unless it has more zones of a kind than the array was created for
\* or a name twice.
THEOREM ZonesAreBoundLive == Spec => []BoundZonesLive
<1>1. TypeOK => BoundZonesLive
  <2> SUFFICES ASSUME TypeOK, draft # None
               PROVE  ZonesLive(Drafts[draft], Load(Drafts[draft]))
    BY DEF BoundZonesLive
  <2>1. draft \in DOMAIN Drafts
    BY DEF TypeOK
  <2>2. IsFile(Drafts[draft])
    BY <2>1, PathAssumption
  <2> QED
    BY <2>2, ZonesAreLive
<1> QED
  BY <1>1, PathTypeCorrect, PTL

\* For any file and any tree of locations: a worker has a timer for each feed of
\* the server's static locations, once and as far as there are timers, and one
\* for a ring and for a sink of these or of the server, if there is one.
THEOREM TimersMatchTree == Spec => []TimersArmed
<1>1. TimersArmed
  BY LoadedTimers DEF TimersArmed
<1> QED
  BY <1>1, PTL
=============================================================================
