----------------------------- MODULE MCOnvifCli -----------------------------
(* Model values for TLC: two hosts, three workers (NM_REP_MAX_WORKERS), two *)
(* callers and enough addresses for a build race and one leaked context.    *)
EXTENDS OnvifCli, TLC

Symmetry == Permutations(Hosts) \cup Permutations(Workers)
              \cup Permutations(Clients) \cup Permutations(Ctxs)
=============================================================================
