---------------------------- MODULE UploadParts ----------------------------
(***************************************************************************)
(* What a POST /upload promises, whatever pieces its body arrives in: the  *)
(* parts of the body are taken in order, each is refused, given up or      *)
(* stored, and of a part that is stored exactly the content that was sent  *)
(* has been given to be written, in order.  Module Multipart shows how     *)
(* process_upload_body implements it.                                      *)
(***************************************************************************)
EXTENDS Integers, Sequences, SequencesExt

CONSTANTS
  Symbol,  \* what files are made of
  File     \* file names

VARIABLES
  parts,    \* the parts of the body: [name, content]
  given,    \* what has been given to be written under each name
  writing,  \* whether the current part is being written
  success,  \* names of the parts stored
  fail      \* names of the parts that are not

vars == <<parts, given, writing, success, fail>>

Init ==
  /\ parts \in Seq([name : File, content : Seq(Symbol)])
  /\ given = [f \in File |-> <<>>]
  /\ writing = FALSE
  /\ success = <<>> /\ fail = <<>>

\* The parts before this one are in success or in fail
Part == Len(success) + Len(fail) + 1
Name == parts[Part].name
Content == parts[Part].content

Stored(f) == f \in Range(success)

Refuse ==
  /\ ~writing /\ Part <= Len(parts)
  /\ fail' = Append(fail, Name)
  /\ UNCHANGED <<parts, given, writing, success>>

Begin ==
  /\ ~writing /\ Part <= Len(parts) /\ ~Stored(Name)
  /\ writing' = TRUE
  /\ UNCHANGED <<parts, given, success, fail>>

Write ==
  /\ writing
  /\ \E n \in Len(given[Name]) + 1 .. Len(Content) :
       given' = [given EXCEPT ![Name] = SubSeq(Content, 1, n)]
  /\ UNCHANGED <<parts, writing, success, fail>>

GiveUp ==
  /\ writing
  /\ writing' = FALSE
  /\ given' = [given EXCEPT ![Name] = <<>>]
  /\ fail' = Append(fail, Name)
  /\ UNCHANGED <<parts, success>>

\* The last piece is written and the part is stored at once
Store ==
  /\ writing
  /\ writing' = FALSE
  /\ given' = [given EXCEPT ![Name] = Content]
  /\ success' = Append(success, Name)
  /\ UNCHANGED <<parts, fail>>

Next == Refuse \/ Begin \/ Write \/ GiveUp \/ Store

Spec == Init /\ [][Next]_vars
=============================================================================
