---------------------------- MODULE MCModelCall ----------------------------
(***************************************************************************)
(* Answers with up to two characters of text, no call, any single call of  *)
(* four tools (one not in the registry) or two calls at once.              *)
(***************************************************************************)
EXTENDS ModelCall, TLC

MCTools == {"list_files", "apply_patch", "finish"}

Answer(content, calls, finish) == [content |-> content, calls |-> calls, finish |-> finish]
Call(name, raw) == [name |-> name, raw |-> raw]

MCAnswers ==
  {Answer(c, <<>>, f) : c \in {<<>>, <<0>>, <<0, 0>>}, f \in {"stop", "length", "tool_calls"}}
  \cup {Answer(c, <<Call(n, raw)>>, f) :
          c \in {<<>>, <<0>>}, n \in MCTools \cup {"other"},
          raw \in {<<>>, Whole, Lacking, Value, <<"{">>}, f \in {"tool_calls", "length"}}
  \cup {Answer(c, <<Call("list_files", Whole), Call(n, raw)>>, "tool_calls") :
          c \in {<<>>, <<0>>}, n \in MCTools, raw \in {<<>>, Lacking}}
=============================================================================
