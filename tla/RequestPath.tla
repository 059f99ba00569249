---------------------------- MODULE RequestPath ----------------------------
(***************************************************************************)
(* A worker and the browsers that talk to it: the variables that may force *)
(* the evaluation of a request early, the PREACCESS handler's dispatch on  *)
(* the verdict, the proof-of-work page and its cookie, internal redirects, *)
(* reloads.  What the zones know of a client is a free choice here: their  *)
(* own modules say how it comes about, BanSharing what a block leads to.   *)
(***************************************************************************)
EXTENDS Pow

CONSTANTS
  Files,      \* Files[i]: a configuration that is started or reloaded
  Drafts,     \* Drafts[i]: a configuration that is only tested (nginx -t)
  Browsers,
  Addrs,      \* Addrs[a]: the family of address a
  Shapes,     \* the requests a browser may send
  Knowledge,  \* what the zones may know of its address
  Routes,     \* Routes[u]: what the operator's rewrite rules do with URI u
  MaxSolve,   \* the longest a browser needs for a page, its round trip included
  Epoch,      \* the clock when the server starts
  MaxTime,    \* bound on the clock
  MaxReloads  \* bound on the reloads

ASSUME PathAssumption ==
  /\ MaxSolve \in Nat \ {0}
  /\ Epoch \in Nat /\ MaxTime \in Nat /\ MaxReloads \in Nat
  /\ Epoch <= MaxTime
  /\ None \notin ToSet(MergeOrder) /\ None \notin DOMAIN Files
  /\ \A f \in DOMAIN Files : IsFile(Files[f])
  /\ \A f \in DOMAIN Drafts : IsFile(Drafts[f])
  /\ \A u \in DOMAIN Routes :
       /\ {Routes[u].via, Routes[u].to} \subseteq ToSet(Locs)
       /\ Routes[u].redirect \in ToSet(Locs) \cup {None}

VARIABLES
  clock,
  file,     \* which file is in force, None before the start
  draft,    \* which draft is being tested
  reloads,
  browser,  \* browser[b]: its address, its cookie and the page it works on
  req,      \* the request in the worker's hands
  earned    \* history: earned[a][s]: when what a client at address a has
            \* solved under secret s is used up

vars == <<clock, file, draft, reloads, browser, req, earned>>

\* What the files come to.
Loaded == [f \in DOMAIN Files |-> Load(Files[f])]

Conf == Loaded[file].conf

\* The files that load, their secrets and the lifetimes of their cookies.
Accepted == {f \in DOMAIN Files : Loaded[f].ok}

Secrets == {Loaded[f].conf[l].pow_secret : f \in Accepted, l \in ToSet(Locs)}

Lifetimes == {Loaded[f].conf[l].pow_ttl : f \in Accepted, l \in ToSet(Locs)}

\* The nonces that browsers may find (see Solution).
Nonces ==
  [challenge : [secret : Secrets, addr : DOMAIN Addrs, n : Nat], bits : Nat]

ASSUME NonceAssumption == None \notin Nonces

\* A page: the request it answers, the location that sent it (None once it is
\* worthless), the nonce it leads to and when this is found.
NewPage(r, c, addr, due) ==
  [uri |-> r.uri, shape |-> r.shape, from |-> r.loc,
   nonce |-> Solution(Challenge(c, addr, clock), c.pow_difficulty),
   ttl |-> c.pow_ttl, due |-> due]

\* tries: how often in a row the solution of a page was answered with a page of
\* the same location.
Fresh(a) == [addr |-> a, cookie |-> None, page |-> None, tries |-> 0]

\* No ctx yet.
NoCtx == [verdict |-> None, by |-> None, path |-> {}]

\* A request: its browser, URI and shape, the cookie and the nonce it carries
\* and the location that asked for this, how far it is, its location and path,
\* the module's ctx, the result, and whether its response is slowed down.
NewReq(b, u, q, nonce, from) ==
  [b |-> b, uri |-> u, shape |-> q, cookie |-> browser[b].cookie,
   nonce |-> nonce, from |-> from, phase |-> "server rewrite",
   loc |-> Routes[u].via, path |-> Routes[u].viaPath,
   redirected |-> FALSE, ctx |-> NoCtx, result |-> None, limited |-> FALSE]

-----------------------------------------------------------------------------
(* Evaluation *)

\* Mutant: the ctx is found but evaluated again.
GetCtxAgain(r, l, k) ==
  LET a == browser[r.b].addr
      in == Gathered(r.shape, a, Addrs[a], r.path, Conf[l], Loaded[file].live, k)
  IN  [verdict |-> Scoring(Conf[l])!Verdict(in), by |-> l, path |-> r.path]

\* ngx_sentinel_get_ctx under the configuration of block l: the first call
\* decides, whatever block asks later.
GetCtx(r, l, k) ==
  IF r.ctx # NoCtx THEN r.ctx
  ELSE LET a == browser[r.b].addr
           in == Gathered(r.shape, a, Addrs[a], r.path, Conf[l],
                          Loaded[file].live, k)
       IN  [verdict |-> Scoring(Conf[l])!Verdict(in), by |-> l,
            path |-> r.path]

\* ngx_http_internal_redirect clears the module's ctx (external).
CtxCleared(r) == NoCtx

-----------------------------------------------------------------------------
(* The phases before PREACCESS *)

Busy == req # None

\* A variable of the module is read in the server's rewrite rules.
ServerRewrite(k) ==
  /\ Busy /\ req.phase = "server rewrite"
  /\ LET reads == "server" \in Routes[req.uri].reads
     IN  req' = [req EXCEPT !.phase = "location",
                            !.ctx = IF reads THEN GetCtx(req, "server", k)
                                    ELSE @]
  /\ UNCHANGED <<clock, file, draft, reloads, browser, earned>>

\* The location is found; its rewrite rules may read a variable and send the
\* request on to another location, with the same ctx.
LocationRewrite(k) ==
  /\ Busy /\ req.phase = "location"
  /\ LET route == Routes[req.uri]
         reads == "location" \in route.reads /\ ~req.redirected
         moved == ~req.redirected
     IN  req' = [req EXCEPT !.phase = "preaccess",
                            !.ctx = IF reads THEN GetCtx(req, req.loc, k) ELSE @,
                            !.loc = IF moved THEN route.to ELSE @,
                            !.path = IF moved THEN route.toPath ELSE @]
  /\ UNCHANGED <<clock, file, draft, reloads, browser, earned>>

-----------------------------------------------------------------------------
(* ngx_sentinel_preaccess_handler *)

At(phase) == Busy /\ req.phase = phase

\* The request goes on, is answered or is held.
Proceed(ctx, how) ==
  req' = [req EXCEPT !.phase = "content", !.ctx = ctx, !.result = how]

Answer(ctx, how) ==
  req' = [req EXCEPT !.phase = "log", !.ctx = ctx, !.result = how]

\* sentinel off, or no memory for the ctx.
Skip ==
  /\ At("preaccess")
  /\ \/ ~Conf[req.loc].sentinel
     \/ req.ctx = NoCtx
  /\ Proceed(req.ctx, "unjudged")
  /\ UNCHANGED <<clock, file, draft, reloads, browser, earned>>

\* The verdict is v and the location enforces it.
Enforces(ctx, v) ==
  /\ At("preaccess")
  /\ Conf[req.loc].sentinel
  /\ ~Conf[req.loc].shadow
  /\ ctx.verdict = v

\* Shadow mode: computed, logged and counted, never enforced.
Observe(k) ==
  LET ctx == GetCtx(req, req.loc, k)
  IN  /\ At("preaccess")
      /\ Conf[req.loc].sentinel
      /\ Conf[req.loc].shadow
      /\ Proceed(ctx, "observed")
      /\ UNCHANGED <<clock, file, draft, reloads, browser, earned>>

Allow(k) ==
  LET ctx == GetCtx(req, req.loc, k)
  IN  /\ Enforces(ctx, "allow")
      /\ Proceed(ctx, "pass")
      /\ UNCHANGED <<clock, file, draft, reloads, browser, earned>>

\* CHALLENGE.  Whatever dispatch does not answer itself goes on; the browser
\* will have solved a page after s seconds.
Challenged(k, faults, s) ==
  LET ctx == GetCtx(req, req.loc, k)
      c == Conf[req.loc]
      b == req.b
      a == browser[b].addr
      what == Dispatch(c, a, req.cookie, req.nonce, clock, faults)
  IN  /\ Enforces(ctx, "challenge")
      /\ IF what = "page" THEN Answer(ctx, what) ELSE Proceed(ctx, what)
      /\ browser' =
           CASE what = "page" ->
                  [browser EXCEPT
                     ![b].page = NewPage(req, c, a, clock + s),
                     ![b].tries = IF req.from = req.loc THEN @ + 1 ELSE 0]
             [] what = "solved" ->
                  [browser EXCEPT
                     ![b].cookie = IF "output" \in faults THEN @
                                   ELSE Cookie(c, a, clock),
                     ![b].tries = 0]
             [] OTHER -> browser
      /\ UNCHANGED <<clock, file, draft, reloads, earned>>

\* TARPIT: slowed down, shielded, held, or closed when no slot is free; held is
\* what sentinel_tarpit_start returns (see Tarpit).
Tarpitted(k, held) ==
  LET ctx == GetCtx(req, req.loc, k)
      c == Conf[req.loc]
  IN  /\ Enforces(ctx, "tarpit")
      /\ IF c.throttle_rate > 0
         THEN req' = [req EXCEPT !.phase = "content", !.ctx = ctx,
                                 !.result = "throttled", !.limited = TRUE]
         ELSE IF c.shield THEN Proceed(ctx, "shielded")
         ELSE IF c.tarpit_max_conns = 0 THEN Answer(ctx, "closed")
         ELSE IF held = "error" THEN Proceed(ctx, "tarpit failed")
         ELSE Answer(ctx, held)
      /\ UNCHANGED <<clock, file, draft, reloads, browser, earned>>

\* BLOCK: block_status; BanSharing has what else it does.
Blocked(k) ==
  LET ctx == GetCtx(req, req.loc, k)
  IN  /\ Enforces(ctx, "block")
      /\ Answer(ctx, "blocked")
      /\ UNCHANGED <<clock, file, draft, reloads, browser, earned>>

-----------------------------------------------------------------------------
(* After PREACCESS *)

\* What try_files, index or error_page make of a request that went on or was
\* refused with a status; 444 closes the connection.
Redirects ==
  /\ ~req.redirected
  /\ Routes[req.uri].redirect # None
  /\ \/ req.phase = "content"
     \/ req.result = "blocked" /\ Conf[req.loc].block_status # 444

\* The request is sent on to another location, under a path that is in no list,
\* through all the phases again.
Redirect ==
  /\ Busy /\ Redirects
  /\ req' = [req EXCEPT !.phase = "server rewrite", !.redirected = TRUE,
                        !.loc = Routes[req.uri].redirect,
                        !.path = {},
                        !.ctx = CtxCleared(req), !.result = None]
  /\ UNCHANGED <<clock, file, draft, reloads, browser, earned>>

\* The upstream answers, and the log phase ends the request.
Finish ==
  /\ Busy /\ req.phase \in {"content", "log"}
  /\ ~Redirects
  /\ req' = None
  /\ UNCHANGED <<clock, file, draft, reloads, browser, earned>>

-----------------------------------------------------------------------------
(* Browsers *)

Idle == file # None /\ ~Busy /\ draft = None

Send(b, u, q) ==
  /\ Idle
  /\ browser[b].page = None
  /\ req' = NewReq(b, u, q, None, None)
  /\ UNCHANGED <<clock, file, draft, reloads, browser, earned>>

\* The page's script has found a nonce and asks again.
Resubmit(b) ==
  LET p == browser[b].page
      mac == p.nonce.challenge
  IN  /\ Idle
      /\ p # None
      /\ p.due = clock
      /\ req' = NewReq(b, p.uri, p.shape, p.nonce, p.from)
      /\ browser' = [browser EXCEPT ![b].page = None]
      /\ earned' = [earned EXCEPT ![mac.addr][mac.secret] =
                      Max({@, (mac.n + 2) * p.ttl})]
      /\ UNCHANGED <<clock, file, draft, reloads>>

\* The page is closed.
Leave(b) ==
  /\ Idle
  /\ browser[b].page # None
  /\ browser' = [browser EXCEPT ![b].page = None, ![b].tries = 0]
  /\ UNCHANGED <<clock, file, draft, reloads, req, earned>>

\* What a browser is busy with has become worthless.
Spoilt(br) ==
  [br EXCEPT !.page = IF @ = None THEN None ELSE [@ EXCEPT !.from = None],
             !.tries = 0]

\* The browser's address changes, its cookies stay.
Roam(b, a) ==
  /\ Idle
  /\ a # browser[b].addr
  /\ browser' = [browser EXCEPT ![b] = [Spoilt(@) EXCEPT !.addr = a]]
  /\ UNCHANGED <<clock, file, draft, reloads, req, earned>>

\* Time passes between requests, and no page is solved late.
Tick ==
  /\ Idle
  /\ clock < MaxTime
  /\ \A b \in Browsers : browser[b].page # None => browser[b].page.due > clock
  /\ clock' = clock + 1
  /\ UNCHANGED <<file, draft, reloads, browser, req, earned>>

-----------------------------------------------------------------------------
(* Configuration *)

\* nginx -t, which has no effect; once before the start is enough.
Test ==
  /\ file = None /\ draft = None /\ reloads = 0
  /\ draft' \in DOMAIN Drafts
  /\ UNCHANGED <<clock, file, reloads, browser, req, earned>>

EndTest ==
  /\ draft # None
  /\ draft' = None
  /\ UNCHANGED <<clock, file, reloads, browser, req, earned>>

\* Mutant: a file that was refused is taken all the same.
ConfigureAnyway(f) ==
  /\ ~Busy /\ draft = None
  /\ f # file
  /\ reloads < MaxReloads
  /\ file' = f
  /\ reloads' = reloads + 1
  /\ UNCHANGED <<clock, draft, browser, req, earned>>

\* Start, or reload; a file that is refused leaves everything as it was.
Configure(f) ==
  /\ ~Busy /\ draft = None
  /\ f # file
  /\ reloads < MaxReloads
  /\ IF Loaded[f].ok
     THEN /\ file' = f
          /\ reloads' = reloads + 1
          /\ browser' = [b \in Browsers |-> Spoilt(browser[b])]
     ELSE UNCHANGED <<file, reloads, browser>>
  /\ UNCHANGED <<clock, draft, req, earned>>

-----------------------------------------------------------------------------
Init ==
  /\ clock = Epoch
  /\ file = None
  /\ draft = None
  /\ reloads = 0
  /\ browser \in [Browsers -> {Fresh(a) : a \in DOMAIN Addrs}]
  /\ req = None
  /\ earned = [a \in DOMAIN Addrs |-> [s \in Secrets |-> 0]]

Preaccess(k) ==
  \/ Observe(k)
  \/ Allow(k)
  \/ \E faults \in SUBSET Faults, s \in 1 .. MaxSolve :
       Challenged(k, faults, s)
  \/ \E held \in {"held", "closed", "error"} : Tarpitted(k, held)
  \/ Blocked(k)

Next ==
  \/ Test
  \/ EndTest
  \/ \E f \in DOMAIN Files : Configure(f)
  \/ \E k \in Knowledge :
       ServerRewrite(k) \/ LocationRewrite(k) \/ Preaccess(k)
  \/ Skip \/ Redirect \/ Finish
  \/ \E b \in Browsers :
       \/ \E u \in DOMAIN Routes, q \in Shapes : Send(b, u, q)
       \/ Resubmit(b) \/ Leave(b)
       \/ \E a \in DOMAIN Addrs : Roam(b, a)
  \/ Tick

Spec == Init /\ [][Next]_vars
-----------------------------------------------------------------------------
TypeOK ==
  /\ clock \in Epoch .. MaxTime
  /\ file \in Accepted \cup {None}
  /\ draft \in DOMAIN Drafts \cup {None}
  /\ reloads \in 0 .. MaxReloads
  /\ \A b \in Browsers :
       /\ browser[b].addr \in DOMAIN Addrs
       /\ browser[b].tries \in Nat
       /\ browser[b].page # None => browser[b].page.due >= clock
  /\ Busy => /\ req.loc \in ToSet(Locs)
             /\ req.phase \in {"server rewrite", "location", "preaccess",
                               "content", "log"}
  /\ earned \in [DOMAIN Addrs -> [Secrets -> Nat]]

\* The PREACCESS handler has judged the request.
Judged == Busy /\ req.phase \in {"content", "log"} /\ req.result # "unjudged"

\* sentinel_pow.c: a forged or garbage cookie can never bypass; fail open only
\* when the signal is disabled or no secret is configured.  Who gets through
\* the challenge band has solved a challenge of his own address under the
\* secret in force, and no longer ago than two lifetimes from the beginning of
\* its period, unless the challenge or the page could not be made.
AdmissionEarned ==
  Judged /\ req.result \in {"cookie", "solved"} =>
    clock < earned[browser[req.b].addr][Conf[req.loc].pow_secret]

\* A browser that is fast enough is let in at its second solution at the
\* latest: the end of the challenge's period spoils one page, and no more.
SecondTrySucceeds ==
  \A b \in Browsers : browser[b].tries <= 1

\* The block and the path that request r is first judged by, on its way from
\* the server's rewrite rules to its location or, after a redirect, on its
\* second way.
FirstToAsk(r) ==
  LET route == Routes[r.uri]
  IN  IF "server" \in route.reads
      THEN <<"server", IF r.redirected THEN {} ELSE route.viaPath>>
      ELSE IF "location" \in route.reads /\ ~r.redirected
      THEN <<route.via, route.viaPath>>
      ELSE <<r.loc, r.path>>

\* A request is judged once on its way, and again after a redirect: the verdict
\* that a location enforces is its own, about the path that it serves, also when
\* the request was redirected to it, and only rules that read a variable of the
\* module put the verdict of the block and the path they were in in its place.
VerdictOwn ==
  Judged => <<req.ctx.by, req.ctx.path>> = FirstToAsk(req)

\* Every zone that a location is bound to works (see ZonesLive).
BoundZonesLive ==
  draft # None => ZonesLive(Drafts[draft], Load(Drafts[draft]))

\* Feeds, rings and sinks have their timers (see TimersExact).
TimersArmed == draft # None => TimersExact(Load(Drafts[draft]))
=============================================================================
