---------------------------- MODULE MCActiveList ----------------------------
(* Small sets of descriptors, of the kinds a question is about. *)
EXTENDS ActiveList, TLC

CONSTANTS d1, d2, d3

TwoRotlogs   == (d1 :> "FILEW") @@ (d2 :> "ROTLOG") @@ (d3 :> "ROTLOG")
FileAndPeers == (d1 :> "FILER") @@ (d2 :> "SOCKETW") @@ (d3 :> "SOCKETR")
FileAndLogs  == (d1 :> "FILER") @@ (d2 :> "ROTLOG") @@ (d3 :> "ROTLOG")

PeersOrLogs == {FileAndPeers, FileAndLogs, TwoRotlogs}
=============================================================================
