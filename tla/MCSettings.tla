----------------------------- MODULE MCSettings -----------------------------
(* Instances of Settings for TLC.                                          *)
EXTENDS Settings

CONSTANTS empty, lo, eth

Compile == {"error", "critical", "info"}

Errors == {"error"}

Defaults == [never_quit |-> FALSE, connector_name |-> "dbus", port |-> 0,
             push_host_port |-> 0, log_type |-> "syslog", log_level |-> Compile,
             netf_enabled |-> FALSE, netf_list |-> <<>>]

(* A file in which every key can be read; the port is beyond a guint.      *)
Complete == [never_quit |-> <<TRUE>>, connector_name |-> <<"other">>,
             port |-> <<9>>, push_host_port |-> <<1>>, log_type |-> <<1>>,
             log_level |-> <<<<2, 3>>>>, netf_enabled |-> <<TRUE>>,
             netf_list |-> <<<<lo>>>>]

(* A file that was edited: one key is left, with a value out of range.     *)
Partial == [NoKeys EXCEPT !["log_type"] = <<5>>]

TwoFiles == {Complete, Partial}

NoLists == {}
=============================================================================
