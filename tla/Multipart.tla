----------------------------- MODULE Multipart -----------------------------
(***************************************************************************)
(* src/HTTPconnection.hpp, process_upload_body: the body of a POST /upload *)
(* is multipart/form-data.  on_body is called with whatever llhttp has     *)
(* read, so that a delimiter, a head or a file may be cut anywhere between *)
(* two calls; what cannot be decided yet stays in _request_body.           *)
(*                                                                         *)
(* A body is a sequence of symbols.  A delimiter has two, so that it can   *)
(* be cut; a line of a head that names a file is one symbol.               *)
(***************************************************************************)
EXTENDS Integers, Sequences, SequencesExt, FiniteSetsExt

CONSTANTS
  Symbol,    \* what bodies are made of
  File,      \* file names
  Upload,    \* the bodies clients send, each as a sequence of parts
  Missing,   \* how many symbols may be missing at the end of a body
  Piece,     \* on_body is given so many symbols, or all that are left
  NoFile     \* _cur_upload_file is ""

SEP == <<"\r", "\n">>

\* _body_boundary, which begins with "--"
Boundary == <<"-", "B">>

\* Occurrences of pattern in s, and the first of them, 0 if there is none
Occurrences(pattern, s) ==
  {i \in 1 .. Len(s) - Len(pattern) + 1 :
     SubSeq(s, i, i + Len(pattern) - 1) = pattern}

Find(pattern, s) ==
  IF Occurrences(pattern, s) = {} THEN 0 ELSE Min(Occurrences(pattern, s))

ASSUME UploadBodies ==
  /\ File \cup {"\r", "\n", "-", "B", "a"} \subseteq Symbol
  /\ File \cap {"\r", "\n", "-", "B", "a", NoFile} = {}
  /\ Piece \subseteq Nat \ {0} /\ Missing \subseteq Nat
  /\ Upload \subseteq Seq([name : File \cup {NoFile}, content : Seq(Symbol)])
  /\ \A u \in Upload : \A i \in DOMAIN u : Occurrences(Boundary, u[i].content) = {}

\* A part without a file name in its head has the name NoFile
Encoded(p) ==
  Boundary \o SEP \o (IF p.name = NoFile THEN <<"a">> ELSE <<p.name>>)
  \o SEP \o SEP \o p.content \o SEP

Closing == Boundary \o <<"-", "-">> \o SEP

Body(u) == FlattenSeq([i \in DOMAIN u |-> Encoded(u[i])]) \o Closing

VARIABLES
  upload,       \* history: the parts of the body
  input,        \* what llhttp has yet to read of it
  requestBody,  \* _request_body
  curFile,      \* _cur_upload_file
  success,      \* _upload_success_files
  fail,         \* _upload_fail_files
  status,       \* _response_status, "" as long as it is not set
  given,        \* history: what AppendContent was given for each file
  data,         \* content of the files of this upload
  pc            \* "read", "loop" in process_upload_body, "answered"

parser == <<upload, input, status, pc>>
files == <<curFile, success, fail, given, data>>
vars == <<parser, requestBody, files>>

Init ==
  /\ upload \in Upload
  /\ \E n \in Missing : input = SubSeq(Body(upload), 1, Len(Body(upload)) - n)
  /\ requestBody = <<>> /\ curFile = NoFile
  /\ success = <<>> /\ fail = <<>>
  /\ given = [f \in File |-> <<>>] /\ data = given
  /\ status \in {"", "400"}  \* on_headers_complete: 400 without a boundary
  /\ pc = "read"

Drop(n, s) == SubSeq(s, n + 1, Len(s))

-----------------------------------------------------------------------------
(* One pass through the loop                                               *)

\* on_body
OnBody(n) ==
  /\ pc = "read" /\ input # <<>>
  /\ input' = Drop(n, input)
  /\ \/ /\ status = ""
        /\ requestBody' = requestBody \o SubSeq(input, 1, Min({n, Len(input)}))
        /\ pc' = "loop"
     \/ status # "" /\ UNCHANGED <<requestBody, pc>>
  /\ UNCHANGED <<upload, status, files>>

\* Mutant: the loop goes on with no more than a delimiter in the body
EnoughOrEqual == Len(requestBody) >= Len(Boundary) + Len(SEP)

\* Mutant: the loop is left before a whole delimiter has been looked for
EnoughForTwo == Len(requestBody) > 2 * (Len(Boundary) + Len(SEP))

Enough == Len(requestBody) > Len(Boundary) + Len(SEP)

Return ==
  /\ pc = "loop" /\ ~Enough
  /\ pc' = "read"
  /\ UNCHANGED <<upload, input, status, requestBody, files>>

InLoop == pc = "loop" /\ Enough

\* Between parts, no delimiter in sight: its beginning may be at the end
Skip ==
  /\ InLoop /\ curFile = NoFile /\ Find(Boundary, requestBody) = 0
  /\ requestBody' = Drop(Len(requestBody) - Len(Boundary), requestBody)
  /\ UNCHANGED <<parser, files>>

FromBoundary == Drop(Find(Boundary, requestBody) - 1, requestBody)

HeadEnd == Find(SEP \o SEP, FromBoundary)

\* A delimiter, but not yet the end of the head behind it
WaitForHead ==
  /\ InLoop /\ curFile = NoFile /\ Find(Boundary, requestBody) # 0
  /\ HeadEnd = 0
  /\ requestBody' = FromBoundary
  /\ pc' = "read"
  /\ UNCHANGED <<upload, input, status, files>>

NamesIn(s) == {i \in DOMAIN s : s[i] \in File}

\* The head names no file: process_upload_body returns false
BadHead ==
  /\ InLoop /\ curFile = NoFile /\ Find(Boundary, requestBody) # 0
  /\ HeadEnd # 0 /\ NamesIn(SubSeq(FromBoundary, 1, HeadEnd)) = {}
  /\ requestBody' = FromBoundary
  /\ status' = "400"
  /\ pc' = "read"
  /\ UNCHANGED <<upload, input, files>>

\* The head names a file.  check_filename or Register may refuse it for
\* reasons outside this request; Register refuses a name stored already.
Named(f) ==
  /\ InLoop /\ curFile = NoFile /\ Find(Boundary, requestBody) # 0
  /\ HeadEnd # 0
  /\ LET names == NamesIn(SubSeq(FromBoundary, 1, HeadEnd))
     IN names # {} /\ f = FromBoundary[Min(names)]
  /\ requestBody' = Drop(HeadEnd + 2 * Len(SEP) - 1, FromBoundary)
  /\ UNCHANGED <<parser, success>>

BeginPart(f) ==
  /\ Named(f) /\ f \notin Range(success)
  /\ curFile' = f
  /\ given' = [given EXCEPT ![f] = <<>>]
  /\ data' = [data EXCEPT ![f] = <<>>]
  /\ UNCHANGED fail

RefusePart(f) ==
  /\ Named(f)
  /\ fail' = Append(fail, f)
  /\ UNCHANGED <<curFile, given, data>>

EndOfFile == Find(SEP \o Boundary, requestBody)

\* Mutant: the line break before a delimiter is not kept back
KeptShort == Len(Boundary)

Kept == Len(Boundary) + Len(SEP)

\* What can be told to be content: all before the next delimiter, or all but
\* as much as may be the beginning of one
FileContent ==
  SubSeq(requestBody, 1,
         IF EndOfFile = 0 THEN Len(requestBody) - Kept ELSE EndOfFile - 1)

PartEnds == EndOfFile # 0

\* AppendContent returns true, or there is nothing to append; at a delimiter the
\* file is inserted.  AppendContent asks good() before close() writes out what is
\* still in the buffer, so that the end of the piece may not be in the file.
AppendPiece ==
  /\ InLoop /\ curFile # NoFile
  /\ requestBody' = Drop(Len(FileContent), requestBody)
  /\ given' = [given EXCEPT ![curFile] = @ \o FileContent]
  /\ \E n \in 0 .. Len(FileContent) :
       data' = [data EXCEPT ![curFile] = @ \o SubSeq(FileContent, 1, n)]
  /\ success' = IF PartEnds THEN Append(success, curFile) ELSE success
  /\ curFile' = IF PartEnds THEN NoFile ELSE curFile
  /\ UNCHANGED <<parser, fail>>

\* Mutant: a file that could not be written is counted with the others
ListAsStored == [success |-> Append(success, curFile), fail |-> fail]

ListAsFailed == [success |-> success, fail |-> Append(fail, curFile)]

\* AppendContent returns false: Deregister removes the file, the rest is skipped
AppendFails ==
  /\ InLoop /\ curFile # NoFile /\ FileContent # <<>>
  /\ requestBody' = Drop(Len(FileContent), requestBody)
  /\ given' = [given EXCEPT ![curFile] = <<>>]
  /\ data' = [data EXCEPT ![curFile] = <<>>]
  /\ success' = ListAsFailed.success /\ fail' = ListAsFailed.fail
  /\ curFile' = NoFile
  /\ UNCHANGED parser

\* process_upload_request
Verdict ==
  CASE fail = <<>> -> "200"
    [] fail # <<>> /\ success = <<>> -> "400"
    [] OTHER -> "207"

\* on_message_complete
OnMessageComplete ==
  /\ pc = "read" /\ input = <<>>
  /\ status' = IF status = "" THEN Verdict ELSE status
  /\ pc' = "answered"
  /\ UNCHANGED <<upload, input, requestBody, files>>

Loop ==
  \/ Return
  \/ Skip
  \/ WaitForHead
  \/ BadHead
  \/ \E f \in File : BeginPart(f) \/ RefusePart(f)
  \/ AppendPiece
  \/ AppendFails

Read == (\E n \in Piece : OnBody(n)) \/ OnMessageComplete

Next == Loop \/ Read

\* The worker that serves the connection runs, and the body keeps coming
Spec == Init /\ [][Next]_vars /\ WF_vars(Loop) /\ WF_vars(Read)

-----------------------------------------------------------------------------
(* Properties                                                              *)

\* Every variable has a value of its type, and no more than one delimiter of
\* undecided content is kept between two pieces of a file.
TypeOK ==
  /\ upload \in Upload
  /\ {input, requestBody} \subseteq Seq(Symbol)
  /\ curFile \in File \cup {NoFile}
  /\ {success, fail} \subseteq Seq(File)
  /\ status \in {"", "200", "207", "400"}
  /\ {given, data} \subseteq [File -> Seq(Symbol)]
  /\ pc \in {"read", "loop", "answered"}
  /\ pc = "read" /\ curFile # NoFile => Len(requestBody) <= Len(Boundary) + Len(SEP)

\* The parts up to the first whose head names no file
NamedParts ==
  LET unnamed == {i \in DOMAIN upload : upload[i].name = NoFile}
  IN IF unnamed = {} THEN upload ELSE SubSeq(upload, 1, Min(unnamed) - 1)

\* Wherever the body is cut, every part is refused, given up or stored, and for a
\* part that is stored AppendContent was given exactly the bytes sent, in order.
Promise == INSTANCE UploadParts WITH
  parts <- NamedParts, writing <- curFile # NoFile

ImplementsParts == Promise!Spec

\* A piece of f that AppendContent took was not written out: util.hpp does not look
Lost(f) == data[f] # given[f]

IsStored(i) ==
  LET part == upload[i]
  IN /\ part.name \in Range(success)
     /\ ~Lost(part.name) => data[part.name] = part.content

\* The last part is being written and the body has ended no later than with the
\* delimiter behind it: AppendContent was given the beginning of its content.
IsCutShort ==
  LET part == Last(upload)
  IN /\ curFile = part.name /\ curFile \notin Range(success) \cup Range(fail)
     /\ \E n \in 0 .. Len(part.content) :
          /\ given[curFile] = SubSeq(part.content, 1, n)
          /\ n + Len(requestBody) <= Len(part.content) + Len(SEP \o Boundary)

\* What an answer tells of a body that was sent in whole, or but for what closes
\* it.  200: every part is stored as sent; only if the closing is missing the last
\* one may be in neither list, with but the beginning of its content in the file.
\* 207: some are not stored, and each name in success_files is stored as sent.
\* 400: none is stored, or the body is not what it should be.  No answer tells of
\* a file whose last bytes AppendContent lost in close().
AnswerTellsTheOutcome ==
  pc = "answered" =>
    /\ status = "200" =>
         \A i \in DOMAIN upload : IsStored(i) \/ (i = Len(upload) /\ IsCutShort)
    /\ status = "207" =>
         /\ fail # <<>> /\ success # <<>>
         /\ \A f \in Range(success) :
              \E i \in DOMAIN upload : upload[i].name = f /\ IsStored(i)
    /\ status = "400" /\ upload = NamedParts => success = <<>>

\* The loop ends for every body and every cut: each request is answered.
EveryUploadIsAnswered == <>(pc = "answered")
=============================================================================
