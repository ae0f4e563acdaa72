----------------------------- MODULE MCConnection -----------------------------
(* A web request and config/set may both start a reload; one loss lets the    *)
(* bridge come back to a broker that still holds the session of its client.   *)
EXTENDS Connection

=============================================================================
