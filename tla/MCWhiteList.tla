---------------------------- MODULE MCWhiteList ----------------------------
(* Instances of WhiteList for TLC.                                         *)
EXTENDS WhiteList, MCSettings

OneList == {<<eth>>}

(* A file of networks; 0 ends its list of levels,   *)
(* and the port is beyond a guint.                                         *)
NetworkFile == [NoKeys EXCEPT !["netf_enabled"] = <<TRUE>>,
                              !["netf_list"] = <<<<empty, eth>>>>,
                              !["log_level"] = <<<<2, 0, 8>>>>,
                              !["port"] = <<9>>]

NetworkFiles == {NetworkFile}
=============================================================================
