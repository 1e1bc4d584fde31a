----------------------------- MODULE MCDiscovery -----------------------------
(* Discovery on two masters: any short report of the first, and one of a single *)
(* pool from the second.                                                        *)
EXTENDS Discovery

MCFirst ==
    {Header("global"), Header("www"), Header("api"),
     Setting("listen", "/run/www.sock"), Setting("listen", "undefined"),
     Setting("pm.status_path", "/status"),
     Setting("pm.status_listen", "9001")}

MCSecond ==
    {Header("www"), Setting("listen", "10.0.0.1:9000"), Setting("listen", "socket"),
     Neither}

MCLines == [q \in Pids |-> IF q = 1 THEN MCFirst ELSE MCSecond]
MCMaxLines == [q \in Pids |-> IF q = 1 THEN 4 ELSE 2]

=============================================================================
