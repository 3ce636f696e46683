--------------------------- MODULE ModelResponse ---------------------------
(***************************************************************************)
(* What becomes of a model's answer: the chunks of a stream normalized by  *)
(* ModelClient._parse_stream_chunk, added up by ModelStreamAccumulator of  *)
(* model/streaming.py, or a whole answer read by _parse_response, and the  *)
(* verdict of the parser of model/parsers/openai_compatible.py.            *)
(*                                                                         *)
(* A text is a sequence of characters.  The arguments of a call are a      *)
(* sequence of fragments, which are whole JSON only in the three forms     *)
(* below.  Call ids and token counts are left out.                         *)
(***************************************************************************)
EXTENDS Integers, Sequences, FiniteSets

CONSTANTS
  Tools,      \* the names in the registry
  Demanding,  \* those whose schema has a required parameter
  Finish      \* the name of the finish tool

ASSUME ToolsAssumption == Finish \in Demanding /\ Demanding \subseteq Tools

Whole   == <<"{", "}">>   \* an object with every required parameter
Lacking == <<"{", "-}">>  \* an object that lacks one
Value   == <<"1">>        \* JSON, but not an object

NoArgs  == <<>>           \* the empty mapping
NoIndex == -1             \* None as tool_call_index
NoName  == ""

Decodes(raw)  == raw \in {Whole, Lacking, Value}
IsObject(raw) == raw \in {Whole, Lacking}

-----------------------------------------------------------------------------
(* The accumulator. *)

EmptyBuffer == [content |-> <<>>, calls |-> <<>>, finish |-> ""]

(* A fragment that names no tool goes to the call that was begun last. *)
Mut_Add(acc, d) ==
  LET index == IF d.name = NoName /\ d.index # NoIndex
               THEN CHOOSE i \in DOMAIN acc.calls : \A j \in DOMAIN acc.calls : j <= i ELSE d.index
      call  == IF index \in DOMAIN acc.calls THEN acc.calls[index] ELSE [name |-> NoName, raw |-> <<>>]
      added == [name |-> IF d.name = NoName THEN call.name ELSE d.name, raw |-> call.raw \o d.args]
  IN  [content |-> acc.content \o d.text,
       calls   |-> IF index = NoIndex THEN acc.calls
                   ELSE [i \in DOMAIN acc.calls \cup {index} |-> IF i = index THEN added ELSE acc.calls[i]],
       finish  |-> IF d.finish = "" THEN acc.finish ELSE d.finish]

(* add: a call is found by its index, a delta without one adds no call. *)
Add(acc, d) ==
  LET call  == IF d.index \in DOMAIN acc.calls THEN acc.calls[d.index] ELSE [name |-> NoName, raw |-> <<>>]
      added == [name |-> IF d.name = NoName THEN call.name ELSE d.name, raw |-> call.raw \o d.args]
  IN  [content |-> acc.content \o d.text,
       calls   |-> IF d.index = NoIndex THEN acc.calls
                   ELSE [i \in DOMAIN acc.calls \cup {d.index} |->
                           IF i = d.index THEN added ELSE acc.calls[i]],
       finish  |-> IF d.finish = "" THEN acc.finish ELSE d.finish]

(* finish: no arguments at all are the empty mapping, and no error. *)
StreamedCall(call) ==
  [name  |-> call.name, raw |-> call.raw,
   args  |-> IF IsObject(call.raw) THEN call.raw ELSE NoArgs,
   error |-> call.raw # <<>> /\ ~IsObject(call.raw)]

(* The n-th smallest index. *)
Nth(S, n) == CHOOSE i \in S : Cardinality({j \in S : j < i}) = n - 1

StreamedResponse(acc) ==
  [content |-> acc.content,
   calls   |-> [n \in 1..Cardinality(DOMAIN acc.calls) |-> StreamedCall(acc.calls[Nth(DOMAIN acc.calls, n)])],
   finish  |-> acc.finish]

(* _parse_stream_chunk: one delta, or one per call, each with the text. *)
ParseStreamChunk(chunk) ==
  IF chunk.calls = <<>>
  THEN <<[text |-> chunk.text, index |-> NoIndex, name |-> NoName, args |-> <<>>,
          finish |-> chunk.finish]>>
  ELSE [i \in DOMAIN chunk.calls |->
          [text |-> chunk.text, index |-> chunk.calls[i].index, name |-> chunk.calls[i].name,
           args |-> chunk.calls[i].args, finish |-> chunk.finish]]

(* _parse_response: any JSON is taken, nothing at all is an error. *)
WholeResponse(answer) ==
  [content |-> answer.content,
   calls   |-> [i \in DOMAIN answer.calls |->
                  LET raw == answer.calls[i].raw
                  IN  [name |-> answer.calls[i].name, raw |-> raw,
                       args |-> IF Decodes(raw) THEN raw ELSE NoArgs, error |-> ~Decodes(raw)]],
   finish  |-> answer.finish]

-----------------------------------------------------------------------------
(* The parser. *)

Unsafe == {"length", "content_filter"}

Action(kind, tool, args, text) == [kind |-> kind, tool |-> tool, args |-> args, text |-> text]
Invalid == Action("invalid", NoName, NoArgs, <<>>)
Refused == Action("refused", NoName, NoArgs, <<>>)  \* is_protocol_failure
Crash   == Action("crash", NoName, NoArgs, <<>>)    \* validate_args raises

(* The parse error of the arguments is not looked at. *)
Mut_ParseCall(call, text) ==
  CASE call.name \notin Tools -> Invalid
    [] call.name \in Tools /\ call.args \notin {NoArgs, Whole, Lacking} -> Crash
    [] call.name \in Demanding /\ call.args \in {NoArgs, Lacking} -> Invalid
    [] OTHER -> Action(IF call.name = Finish THEN "finish" ELSE "tool", call.name, call.args, text)

(* A single call.  validate_args asks a value for its items. *)
ParseCall(call, text) ==
  CASE call.error -> Refused
    [] ~call.error /\ call.name \notin Tools -> Invalid
    [] ~call.error /\ call.name \in Tools /\ call.args \notin {NoArgs, Whole, Lacking} -> Crash
    [] ~call.error /\ call.name \in Demanding /\ call.args \in {NoArgs, Lacking} -> Invalid
    [] OTHER -> Action(IF call.name = Finish THEN "finish" ELSE "tool", call.name, call.args, text)

Parse(r) ==
  CASE r.finish \in Unsafe -> Refused
    [] r.finish \notin Unsafe /\ Len(r.calls) > 1 -> Refused
    [] r.finish \notin Unsafe /\ Len(r.calls) = 1 -> ParseCall(r.calls[1], r.content)
    [] r.finish \notin Unsafe /\ r.calls = <<>> ->
         IF r.content = <<>> THEN Invalid
         ELSE IF r.finish = "stop" THEN Action("reply", NoName, NoArgs, r.content)
         ELSE Refused

-----------------------------------------------------------------------------
(* The provider: the chunks of an answer. *)

Chunk(text, calls, finish) == [text |-> text, calls |-> calls, finish |-> finish]
CallPart(i, name, args, numbered) ==
  [index |-> IF numbered THEN i ELSE NoIndex, name |-> name, args |-> args]

Header(a, i, numbered) == Chunk(<<>>, <<CallPart(i, a.calls[i].name, <<>>, numbered)>>, "")

Fragment(i, piece, numbered) == Chunk(<<>>, <<CallPart(i, NoName, <<piece>>, numbered)>>, "")

(* All of it but the finish reason, in one chunk. *)
AtOnce(a) ==
  Chunk(a.content, [i \in DOMAIN a.calls |-> CallPart(i, a.calls[i].name, a.calls[i].raw, TRUE)], "")

(* What is still to be sent of an answer: the rest of its text, of the     *)
(* arguments of each call, the calls after those begun, and the end.       *)
Unsent(a) ==
  [text |-> a.content, begun |-> 0, raws |-> [i \in DOMAIN a.calls |-> a.calls[i].raw], ended |-> FALSE]
AllButEnd(a) ==
  [text |-> <<>>, begun |-> Len(a.calls), raws |-> [i \in DOMAIN a.calls |-> <<>>], ended |-> FALSE]
=============================================================================
