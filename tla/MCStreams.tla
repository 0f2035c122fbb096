----------------------------- MODULE MCStreams -----------------------------
(***************************************************************************)
(* Lines of a body: a piece of reasoning or of text, the beginning or the   *)
(* rest of one of two calls, both calls at once, a call without a name, the *)
(* end, and a chunk that says nothing the client reads (a role, an error).  *)
(***************************************************************************)
EXTENDS Streams

Nothing == [reasoning |-> <<>>, content |-> <<>>, frags |-> <<>>, finish |-> "",
            usage |-> 0, done |-> FALSE]
Piece(index, id, name, args) == [index |-> index, id |-> id, name |-> name, args |-> args]
Says(frags) == [Nothing EXCEPT !.frags = frags]

TextChunks ==
  {Nothing, [Nothing EXCEPT !.reasoning = <<"r">>], [Nothing EXCEPT !.content = <<"x">>]}

OpenAI ==
  TextChunks \cup
  {Says(<<Piece(1, "i1", "g", <<"a">>)>>), Says(<<Piece(0, "i0", "f", <<>>)>>),
   Says(<<Piece(0, "", "", <<"b">>)>>), Says(<<Piece(1, "", "", <<"c">>)>>),
   Says(<<Piece(0, "i0", "f", <<"d">>), Piece(1, "i1", "g", <<"e">>)>>),
   [Nothing EXCEPT !.finish = "length"], [Nothing EXCEPT !.usage = 1]}

Ollama ==
  TextChunks \cup
  {Says(<<Piece(1, "", "g", <<"a">>)>>), Says(<<Piece(NoIndex, "", "f", <<"b">>)>>),
   Says(<<Piece(NoIndex, "i0", "f", <<>>), Piece(NoIndex, "", "g", <<"e">>)>>),
   Says(<<Piece(2, "", "", <<"c">>)>>),
   [Nothing EXCEPT !.finish = "length", !.usage = 1, !.done = TRUE],
   [Nothing EXCEPT !.content = <<"y">>, !.finish = "unload", !.done = TRUE]}

MCChunks == [openai |-> OpenAI, ollama |-> Ollama]
=============================================================================
