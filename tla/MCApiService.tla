---------------------------- MODULE MCApiService ----------------------------
(* ApiService on one job, with at most one request thread for downloads. *)
EXTENDS ApiService, TLC

CONSTANTS j1, h1
OneJob     == {j1}

OneHandler == {h1}
=============================================================================
