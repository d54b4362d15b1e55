------------------------- MODULE MCOperatorProcess -------------------------
(***************************************************************************)
(* An instance of OperatorProcess for TLC.                                 *)
(***************************************************************************)
EXTENDS OperatorProcess

Good == [level |-> "info", mode |-> "production", endpoint |-> "rpc", leaderElection |-> TRUE]

\* One configuration that works with each exporter, and each way to get one wrong.
Environments ==
    {Good,
     [Good EXCEPT !.endpoint = "https", !.leaderElection = FALSE],
     [Good EXCEPT !.endpoint = ""],
     [Good EXCEPT !.endpoint = "ftp"],
     [Good EXCEPT !.level = "loud"],
     [Good EXCEPT !.mode = "test"]}
=============================================================================
