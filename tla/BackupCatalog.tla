--------------------------- MODULE BackupCatalog ---------------------------
(***************************************************************************)
(* What the backup service promises about one server run: a name is free,  *)
(* being uploaded by somebody, or published with a content.  Nobody can    *)
(* claim a name that is not free, only an upload in progress is published  *)
(* or withdrawn, and the content of a published name never changes: it can *)
(* only be removed.  A stop forgets the catalog; what the next run starts  *)
(* with is left open, except that no upload is in progress.                *)
(***************************************************************************)
EXTENDS Integers, Sequences

CONSTANTS
  File,     \* the names
  Content,  \* the contents a published name may have
  Free,     \* nobody uses the name
  Claimed   \* an upload of the name is in progress

VARIABLES
  catalog,  \* for each name: Free, Claimed or its content
  serving   \* is the server running

vars == <<catalog, serving>>

Init ==
  /\ catalog = [f \in File |-> Free]
  /\ serving = TRUE

Claim(f) ==
  /\ serving /\ catalog[f] = Free
  /\ catalog' = [catalog EXCEPT ![f] = Claimed]
  /\ UNCHANGED serving

Publish(f) ==
  /\ serving /\ catalog[f] = Claimed
  /\ catalog'[f] \in Content
  /\ catalog' = [catalog EXCEPT ![f] = catalog'[f]]
  /\ UNCHANGED serving

Withdraw(f) ==
  /\ serving /\ catalog[f] = Claimed
  /\ catalog' = [catalog EXCEPT ![f] = Free]
  /\ UNCHANGED serving

Remove(f) ==
  /\ serving /\ catalog[f] \in Content
  /\ catalog' = [catalog EXCEPT ![f] = Free]
  /\ UNCHANGED serving

Stop ==
  /\ serving
  /\ catalog' = [f \in File |-> Free]
  /\ serving' = FALSE

Resume ==
  /\ ~serving
  /\ catalog' \in [File -> {Free} \cup Content]
  /\ serving' = TRUE

Next ==
  \/ \E f \in File : Claim(f) \/ Publish(f) \/ Withdraw(f) \/ Remove(f)
  \/ Stop
  \/ Resume

Spec == Init /\ [][Next]_vars
=============================================================================
