---------------------------- MODULE MCLogWriter ----------------------------
(* Values of the constants of LogWriter for TLC. *)
EXTENDS LogWriter

AllDestinations ==
    {"logrotate", "fluentbit", "journald", "journald+logrotate",
     "fluentbit+logrotate"}

=============================================================================
