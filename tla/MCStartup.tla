----------------------------- MODULE MCStartup -----------------------------
(***************************************************************************)
(* Startup on a small instance: the environments of two deployments, and   *)
(* one with a variable missing.                                            *)
(***************************************************************************)
EXTENDS Startup

Environment(unset, refresh, tenant) ==
  [unset |-> unset, access |-> "15m", refresh |-> refresh, tenant |-> tenant]

MCEnvironments ==
  {Environment({}, "168h", "default"), Environment({}, "168h", "acme"),
   Environment({"REDIS_URL"}, "168h", "default"), Environment({}, "7 days", "default")}
=============================================================================
