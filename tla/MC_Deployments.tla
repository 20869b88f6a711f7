---------------------------- MODULE MC_Deployments ----------------------------
(***************************************************************************)
(* Model-checking instance of Deployments on regtest.  Two -vbparams       *)
(* values are enough to override one deployment twice or two different     *)
(* ones.  The field values mix the sentinel -1, junk and ordinary numbers; *)
(* the queries ask for every bit of the table and one unknown bit, at the  *)
(* window boundaries and on both sides of them.                            *)
(***************************************************************************)
EXTENDS Deployments

MCNames == {"v20", "mn_rr", "bogus"}
MCStartValues == {0, 50, Junk}
MCTimeoutValues == {100, NoTimeout}
MCWindowValues == {-1, 12}
MCThresholdValues == {-1}
MCUseEHFValues == {-1, 0, 1}
MCQueryBits == {9, 10, 28, 5}
MCQueryTimes == {-1, 0, 50, 100, 150}

=============================================================================
