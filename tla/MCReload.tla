------------------------------ MODULE MCReload ------------------------------
(* Reload on a host of two pids and two masters, one under two spellings. *)
EXTENDS Reload

MCClean == [f \in Configs |-> IF f = "/etc/../etc/a" THEN "/etc/a" ELSE f]

\* With and without a configuration to match on.  A pid file that cannot be read
\* is as good as none.
MCTargets == [configPath : {"/etc/../etc/a", NoConfig}, pidFile : {TRUE}]

=============================================================================
