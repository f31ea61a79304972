----------------------------- MODULE MCReactor -----------------------------
(* Small instances of Reactor for TLC. *)
EXTENDS Reactor, TLC

CONSTANTS c1, c2, c3

Plain == [kind |-> "plain", size |-> 1, pieces |-> 0]
Showlist == [kind |-> "showlist", size |-> 1, pieces |-> 0]
Malformed == [kind |-> "malformed", size |-> 1, pieces |-> 0]
Download(size, pieces) ==
  [kind |-> "download", size |-> size, pieces |-> pieces]

\* One client that sends its second request behind a download, which comes in
\* two pieces; one whose file is empty; and two clients at once, one of which
\* does not speak HTTP
PipelinedOrTwo ==
  { (c1 :> <<Download(2, 1), Showlist>>) @@ (c2 :> <<>>) @@ (c3 :> <<>>),
    (c1 :> <<>>) @@ (c2 :> <<Plain, Download(1, 0)>>) @@ (c3 :> <<>>),
    (c1 :> <<Malformed>>) @@ (c2 :> <<Download(1, 1)>>) @@ (c3 :> <<>>) }

\* Three connections, which may have one descriptor one after the other: with
\* two use counts the third has the identifier of the first
Wraps ==
  { (c1 :> <<Malformed>>) @@ (c2 :> <<Malformed>>) @@ (c3 :> <<Malformed>>) }

Clients == PipelinedOrTwo \cup Wraps

\* A request that needs no more than its head, then a download
ShortThenDownload == { c1 :> <<Plain, Download(1, 1)>> }

\* A file in two pieces
LongDownload == { c1 :> <<Download(1, 2)>> }

Descriptors == {5, 6, 7}
=============================================================================
