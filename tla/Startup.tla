------------------------------ MODULE Startup ------------------------------
(***************************************************************************)
(* From the environment to the objects main builds: LoadConfig             *)
(* (internal/config.go) and the first half of main (cmd/main.go), as       *)
(* functions of the environment and the command line.                      *)
(*                                                                         *)
(* A variable that is not set is Unset.  A text that does not parse as the *)
(* Boolean, number or duration it should be is Garbled.  Backend URLs are  *)
(* "url", "blank" (nothing between two commas: it parses) or "broken".     *)
(***************************************************************************)
EXTENDS Integers, Sequences

CONSTANTS Unset, Garbled

(* Durations in seconds, sizes in bytes.                                   *)
Defaults ==
  [LB_STRATEGY              |-> "round_robin",
   LB_HEALTH_INTERVAL       |-> 2,
   LB_HEALTH_TIMEOUT        |-> 1,
   LB_METRICS_ENABLED       |-> TRUE,
   LB_RATE_LIMIT_ENABLED    |-> FALSE,
   LB_RATE_LIMIT_MAX        |-> 100,
   LB_RATE_LIMIT_WINDOW     |-> 60,
   LB_REQUEST_LIMIT_ENABLED |-> FALSE,
   LB_MAX_BODY_SIZE         |-> 10 * 1024 * 1024,
   LB_MAX_HEADER_SIZE       |-> 8192,
   LB_TLS_ENABLED           |-> FALSE,
   LB_TLS_AUTO_GEN          |-> TRUE]

(* getEnv, getBool, getInt, getInt64 and getDuration: no range is checked. *)
Get(env, key) ==
  IF env[key] \in {Unset, Garbled} THEN Defaults[key] ELSE env[key]

parseCSV(list) == IF list = Unset THEN <<>> ELSE list

parseIntCSV(list) ==
  [i \in DOMAIN parseCSV(list) |-> IF list[i] = Garbled THEN 1 ELSE list[i]]

LoadConfig(env) ==
  [key \in {"LB_BACKENDS", "LB_WEIGHTS"} \cup DOMAIN Defaults |->
     CASE key = "LB_BACKENDS" -> parseCSV(env.LB_BACKENDS)
       [] key = "LB_WEIGHTS"  -> parseIntCSV(env.LB_WEIGHTS)
       [] OTHER               -> Get(env, key)]

(* log.Fatal: LoadConfig finds no backend, or NewReverseProxy one that it  *)
(* cannot parse.  So NewBackend, which parses it again, never fails, and   *)
(* main's loop passes over nothing.                                        *)
Fatal(cfg) == cfg.LB_BACKENDS = <<>> \/ \E i \in DOMAIN cfg.LB_BACKENDS : cfg.LB_BACKENDS[i] = "broken"

NewBackends(cfg) ==
  [i \in DOMAIN cfg.LB_BACKENDS |->
     [url    |-> cfg.LB_BACKENDS[i],
      weight |-> IF i \in DOMAIN cfg.LB_WEIGHTS THEN cfg.LB_WEIGHTS[i] ELSE 1]]

AvailableStrategies == {"round_robin", "least_connections", "latency", "consistent_hash"}

(* The flag wins; a name that is not known means round robin.              *)
StrategyName(cfg, flag) ==
  LET name == IF flag = Unset THEN cfg.LB_STRATEGY ELSE flag
  IN  IF name \in AvailableStrategies THEN name ELSE "round_robin"

(* Mutant: NewHealthChecker takes what it is given.                        *)
NewHealthChecker_Trusts(cfg) ==
  [interval |-> cfg.LB_HEALTH_INTERVAL, timeout |-> cfg.LB_HEALTH_TIMEOUT]

NewHealthChecker(cfg) ==
  [interval |-> IF cfg.LB_HEALTH_INTERVAL > 0 THEN cfg.LB_HEALTH_INTERVAL ELSE 2,
   timeout  |-> IF cfg.LB_HEALTH_TIMEOUT > 0 THEN cfg.LB_HEALTH_TIMEOUT ELSE 1]

(* All that main hands to the parts it starts.                             *)
Build(cfg, flag) ==
  [backends |-> NewBackends(cfg),
   strategy |-> StrategyName(cfg, flag),
   checker  |-> NewHealthChecker(cfg),
   rate     |-> [enabled |-> cfg.LB_RATE_LIMIT_ENABLED,
                 max     |-> cfg.LB_RATE_LIMIT_MAX,
                 window  |-> cfg.LB_RATE_LIMIT_WINDOW],
   size     |-> [enabled |-> cfg.LB_REQUEST_LIMIT_ENABLED,
                 body    |-> cfg.LB_MAX_BODY_SIZE,
                 header  |-> cfg.LB_MAX_HEADER_SIZE],
   metrics  |-> cfg.LB_METRICS_ENABLED,
   tls      |-> cfg.LB_TLS_ENABLED,
   autoGen  |-> cfg.LB_TLS_AUTO_GEN]
=============================================================================
