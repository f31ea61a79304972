---------------------------- MODULE MCMultipart ----------------------------
(* A small instance of Multipart for TLC. *)
EXTENDS Multipart

Symbols == File \cup {"\r", "\n", "-", "B", "a"}

part(f, s) == [name |-> f, content |-> s]

\* No content, content that looks like the beginning of a delimiter, and
\* content with line breaks of its own
Contents == { <<>>, <<"a">>, <<"-", "\r", "\n", "-">>, <<"\r", "\n", "\r">> }

Uploads ==
  {<<>>} \cup {<<part(f, s)>> : f \in {"f", NoFile}, s \in Contents}
  \cup {<<part("f", s), part(g, t)>> : s \in Contents, g \in {"f", "g"}, t \in {<<>>, <<"a">>}}
  \cup {<<part("f", <<"a">>), part(NoFile, <<"a">>)>>}
=============================================================================
