----------------------------- MODULE MCService -----------------------------
(***************************************************************************)
(* Model values and bounds for Service.                                    *)
(***************************************************************************)
EXTENDS Service, TLC

CONSTANTS a1, a2, c1, c2, c3, w1, w2, k1, k2, t1, t2, p1, p2, r1, r2

Nothing == [register |-> 0, link |-> 0, unlink |-> 0, nonce |-> 0, signin |-> 0, tick |-> 0, crash |-> 0,
            mint |-> 0, own |-> 0, grant |-> 0, revoke |-> 0, rotate |-> 0, close |-> 0,
            connect |-> 0, ask |-> 0, hit |-> 0, crowd |-> 0, follow |-> 0, entry |-> 0, drop |-> 0,
            open |-> 0, query |-> 0, report |-> 0, earn |-> 0, load |-> 0]

\* The limiter with one caller, and with more than it may track; the feed, cut
\* off twice, or with the process; nonces replayed and swept; three tabs; two
\* wallets and a typed address; two tabs with one email, and a process that
\* dies; mints and keys, with the owner's writer or a workspace that goes; two
\* connections that outlive a key; permissions that change under one;
\* processes that open one store; pages loaded while reports and credits change.
MCBudgets ==
  {[Nothing EXCEPT !.crowd = 1, !.hit = 7, !.tick = 9],
   [Nothing EXCEPT !.crowd = 3, !.hit = 3, !.tick = 8],
   [Nothing EXCEPT !.follow = 1, !.entry = 3, !.drop = 2, !.tick = 1],
   [Nothing EXCEPT !.follow = 1, !.entry = 2, !.drop = 1, !.tick = 1, !.crash = 1],
   [Nothing EXCEPT !.nonce = 2, !.signin = 3, !.tick = 2],
   [Nothing EXCEPT !.nonce = 3, !.signin = 3],
   [Nothing EXCEPT !.nonce = 2, !.signin = 2, !.register = 1, !.link = 2],
   [Nothing EXCEPT !.nonce = 1, !.signin = 1, !.register = 2, !.link = 1, !.unlink = 1,
                   !.crash = 1],
   [Nothing EXCEPT !.mint = 3, !.own = 1, !.revoke = 1, !.rotate = 1],
   [Nothing EXCEPT !.mint = 3, !.revoke = 1, !.rotate = 1, !.close = 1],
   [Nothing EXCEPT !.mint = 1, !.own = 1, !.connect = 2, !.ask = 2, !.revoke = 1],
   [Nothing EXCEPT !.mint = 1, !.connect = 2, !.ask = 2, !.revoke = 1, !.rotate = 1],
   [Nothing EXCEPT !.mint = 2, !.connect = 1, !.ask = 2, !.grant = 1, !.close = 1],
   [Nothing EXCEPT !.open = 3, !.query = 2, !.crash = 1],
   [Nothing EXCEPT !.load = 1, !.report = 3, !.tick = 2],
   [Nothing EXCEPT !.load = 2, !.report = 1, !.earn = 1, !.tick = 1, !.crash = 1]}

\* The columns an older store lacks.
MCColumns == <<"walletProvenAt", "walletProvenAddress">>

Symmetry == Permutations(Callers)

=============================================================================
