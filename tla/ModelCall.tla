----------------------------- MODULE ModelCall -----------------------------
(***************************************************************************)
(* One model call of a turn: the attempts of ModelClient.generate and      *)
(* generate_stream of model/client.py, the loop that consumes the deltas   *)
(* (agent/loop.py:439-503), what the user is shown meanwhile, and the      *)
(* action the answer becomes.                                              *)
(*                                                                         *)
(* The provider answers each attempt with a new answer, of which each      *)
(* character is marked with the attempt it belongs to.  It may cut the     *)
(* answer into chunks in any order that begins its calls one after another *)
(* and each before its arguments, and the stream may raise or end at any   *)
(* chunk.  Waiting between attempts is a delay only.                       *)
(***************************************************************************)
EXTENDS ModelResponse

CONSTANTS
  Answers,       \* what the provider may answer
  MaxRetries,    \* max_retries
  RunId, NoRunId, PreviewChars

ASSUME RetriesAssumption == MaxRetries \in Nat \ {0}

(* Nothing follows a JSON object in the arguments of a call. *)
ASSUME AnswersAssumption ==
  \A a \in Answers :
    /\ a \in [content : Seq({0}), calls : Seq([name : STRING, raw : Seq(STRING)]), finish : STRING]
    /\ \A i \in DOMAIN a.calls : \A k \in 0..Len(a.calls[i].raw) :
         IsObject(SubSeq(a.calls[i].raw, 1, k)) => k = Len(a.calls[i].raw)

Ui == INSTANCE UiReducer

VARIABLES
  streaming,  \* supports_streaming of the client
  phase,      \* "asking", "reading", "answered", "acted", "failed", "cancelled"
  attempt,    \* the number of this attempt
  answer,     \* what the provider means to answer in this attempt
  left,       \* what it has not sent
  indexed,    \* its chunks number their calls
  yielded,    \* this attempt gave a delta to the loop
  deltas,     \* of the current chunk, not yet taken
  buffer,     \* the accumulator
  response,   \* the ModelResponse, once there is one
  action,     \* the AgentAction, once there is one
  ui,         \* the state of the user interface
  cancelled   \* the token

provider == <<answer, left, indexed>>
callVars == <<streaming, phase, attempt, provider, yielded, deltas, buffer, response, action, ui, cancelled>>

NoAnswer   == [content |-> <<>>, calls |-> <<>>, finish |-> ""]
NothingLeft == [AllButEnd(NoAnswer) EXCEPT !.ended = TRUE]
NoResponse == [content |-> <<>>, calls |-> <<>>, finish |-> "none"]
NoAction   == Action("none", NoName, NoArgs, <<>>)

Over == phase \in {"acted", "failed", "cancelled"}

(* An event of this call, reduced as the app does. *)
Show(type, text) ==
  ui' = Ui!Reduce(ui, [type |-> type, run |-> RunId, seq |-> ui.last + 1, turn |-> 1,
                       call |-> NoName, text |-> text, status |-> "none"])

-----------------------------------------------------------------------------
(* The client. *)

Kinds     == {"rate_limit", "timeout", "server", "connection", "client", "other"}
Retryable == {"rate_limit", "timeout", "server"}

(* A broken stream is asked for again as well. *)
Mut_MayRetry(kind) == kind \in Retryable /\ attempt < MaxRetries

MayRetry(kind) == kind \in Retryable /\ ~yielded /\ attempt < MaxRetries

(* The answer of this attempt. *)
Answering == \E a \in Answers : answer' = [a EXCEPT !.content = [i \in DOMAIN @ |-> attempt]]

(* create() returns a stream. *)
OpenStream ==
  /\ phase = "asking" /\ streaming
  /\ Answering
  /\ left' = Unsent(answer')
  /\ indexed' \in BOOLEAN
  /\ phase' = "reading"
  /\ yielded' = FALSE
  /\ UNCHANGED <<streaming, attempt, deltas, buffer, response, action, ui, cancelled>>

(* create() returns a whole answer, which the client parses. *)
ReceiveWhole ==
  /\ phase = "asking" /\ ~streaming
  /\ Answering
  /\ phase' = "answered"
  /\ response' = WholeResponse(answer')
  /\ Show("ModelCompleted", answer'.content)
  /\ UNCHANGED <<streaming, attempt, left, indexed, yielded, deltas, buffer, action, cancelled>>

(* The next chunk, with at least one delta, the first of which is yielded. *)
Sends(chunk, rest) ==
  /\ phase = "reading" /\ deltas = <<>> /\ ~left.ended
  /\ deltas' = ParseStreamChunk(chunk)
  /\ left' = rest
  /\ yielded' = TRUE
  /\ UNCHANGED <<streaming, phase, attempt, answer, indexed, buffer, response, action, ui, cancelled>>

SendText ==
  /\ left.text # <<>>
  /\ Sends(Chunk(<<Head(left.text)>>, <<>>, ""), [left EXCEPT !.text = Tail(@)])

SendHeader ==
  /\ left.begun < Len(answer.calls)
  /\ Sends(Header(answer, left.begun + 1, indexed), [left EXCEPT !.begun = @ + 1])

SendFragment(i) ==
  /\ left.raws[i] # <<>>
  /\ Sends(Fragment(i, Head(left.raws[i]), indexed), [left EXCEPT !.raws[i] = Tail(@)])

(* Some providers send nothing in pieces; they number their calls. *)
SendAtOnce ==
  /\ left = Unsent(answer) /\ left # AllButEnd(answer) /\ indexed
  /\ Sends(AtOnce(answer), AllButEnd(answer))

SendEnd == left = AllButEnd(answer) /\ Sends(Chunk(<<>>, <<>>, answer.finish), [left EXCEPT !.ended = TRUE])

ReadChunk ==
  \/ SendText \/ SendHeader \/ SendAtOnce \/ SendEnd
  \/ \E i \in 1..left.begun : SendFragment(i)

CanRaise == phase \in {"asking", "reading"} /\ deltas = <<>>

(* create(), or the iteration before its first delta, raises. *)
Retry(kind) ==
  /\ CanRaise /\ MayRetry(kind)
  /\ phase' = "asking"
  /\ attempt' = attempt + 1
  /\ answer' = NoAnswer /\ left' = NothingLeft /\ indexed' = TRUE
  /\ UNCHANGED <<streaming, yielded, deltas, buffer, response, action, ui, cancelled>>

(* Re-raised, or the RuntimeError after the last attempt. *)
Raise(kind) ==
  /\ CanRaise /\ ~MayRetry(kind)
  /\ phase' = "failed"
  /\ Show("ModelFailed", <<>>)
  /\ UNCHANGED <<streaming, attempt, provider, yielded, deltas, buffer, response, action, cancelled>>

-----------------------------------------------------------------------------
(* The loop. *)

TakeDelta ==
  /\ deltas # <<>> /\ ~cancelled /\ ~Over
  /\ buffer' = Add(buffer, Head(deltas))
  /\ deltas' = Tail(deltas)
  /\ Show("ModelDelta", Head(deltas).text)
  /\ UNCHANGED <<streaming, phase, attempt, provider, yielded, response, action, cancelled>>

(* raise_if_cancelled before a delta is taken, or before the answer is     *)
(* parsed or acted on.                                                     *)
Abandon ==
  /\ cancelled
  /\ (phase = "reading" /\ deltas # <<>>) \/ phase = "answered"
  /\ phase' = "cancelled"
  /\ UNCHANGED <<streaming, attempt, provider, yielded, deltas, buffer, response, action, ui, cancelled>>

(* The iteration ends: the provider is done, or the connection closed.  No *)
(* finish reason is asked for.                                             *)
EndStream ==
  /\ phase = "reading" /\ deltas = <<>>
  /\ phase' = "answered"
  /\ response' = StreamedResponse(buffer)
  /\ Show("ModelCompleted", buffer.content)
  /\ UNCHANGED <<streaming, attempt, provider, yielded, deltas, buffer, action, cancelled>>

Act ==
  /\ phase = "answered" /\ ~cancelled
  /\ phase' = "acted"
  /\ action' = Parse(response)
  /\ UNCHANGED <<streaming, attempt, provider, yielded, deltas, buffer, response, ui, cancelled>>

(* Another thread. *)
Cancel ==
  /\ ~cancelled /\ ~Over
  /\ cancelled' = TRUE
  /\ UNCHANGED <<streaming, phase, attempt, provider, yielded, deltas, buffer, response, action, ui>>

-----------------------------------------------------------------------------

(* ModelStarted was emitted. *)
CallInit ==
  /\ streaming \in BOOLEAN
  /\ phase = "asking" /\ attempt = 1
  /\ answer = NoAnswer /\ left = NothingLeft /\ indexed = TRUE /\ yielded = FALSE
  /\ deltas = <<>> /\ buffer = EmptyBuffer /\ response = NoResponse /\ action = NoAction
  /\ ui = [Ui!InitialUi(RunId) EXCEPT !.busy = TRUE, !.phase = "thinking"]
  /\ cancelled = FALSE

CallNext ==
  \/ OpenStream \/ ReceiveWhole \/ ReadChunk
  \/ \E kind \in Kinds : Retry(kind) \/ Raise(kind)
  \/ TakeDelta \/ Abandon \/ EndStream \/ Act
  \/ Cancel

CallSpec == CallInit /\ [][CallNext]_callVars

-----------------------------------------------------------------------------
(* Properties. *)

OfThisAttempt(text) == \A i \in DOMAIN text : text[i] = attempt

(* The user is shown the text that arrived, once, also while it streams in *)
(* and when the call fails or is cancelled; and the pieces of two answers  *)
(* are never put together: all of it belongs to the latest attempt         *)
(* (client.py:181-213, loop.py:452-499, state.py:221-282).                 *)
ShownIsOneAnswer ==
  LET text == IF response = NoResponse THEN buffer.content ELSE response.content
  IN  /\ ui.messages = IF text = <<>> THEN <<>> ELSE <<text>>
      /\ OfThisAttempt(text)
      /\ phase = "asking" => buffer = EmptyBuffer

(* The stream ended although the provider had more to send. *)
Cut == streaming /\ ~left.ended

(* What is done is what the model asked for.  A reply is whole, and comes  *)
(* with no call unless the provider does not number its calls.  A call is  *)
(* the only one and has the arguments the model gave it, and the answer    *)
(* was not cut short by the provider; when the stream ended early, a       *)
(* second call, the reason and all of the arguments may be missing, but    *)
(* never a part of the arguments (openai_compatible.py:59-156).            *)
ActedOnWhole ==
  phase = "acted" =>
    /\ action.kind = "reply" =>
         /\ action.text = answer.content
         /\ answer.calls = <<>> \/ ~indexed
    /\ action.kind \in {"tool", "finish"} =>
         /\ answer.calls # <<>> /\ action.tool = answer.calls[1].name
         /\ \/ action.args = answer.calls[1].raw
            \/ Cut /\ response.calls[1].raw = <<>>
         /\ Len(answer.calls) > 1 => Cut
         /\ answer.finish \in Unsafe => Cut

(* How often the text of an answer that was sent in one piece is added. *)
Repeated(text, n) == [i \in 1..(n * Len(text)) |-> text[((i - 1) % Len(text)) + 1]]

(* A stream that was not cut gives the response the same answer gives when *)
(* it is sent whole, but for three differences: a call without arguments   *)
(* is an error only there, one whose arguments are no object only here,    *)
(* and the text of a chunk with several calls is taken once per call       *)
(* (client.py:217-324, streaming.py:73-131).                               *)
StreamAgrees ==
  LET whole == WholeResponse(answer)
  IN  streaming /\ indexed /\ response # NoResponse /\ left.ended =>
        /\ response.finish = whole.finish
        /\ \/ response.content = whole.content
           \/ /\ Len(whole.calls) > 1
              /\ response.content = Repeated(whole.content, Len(whole.calls))
        /\ Len(response.calls) = Len(whole.calls)
        /\ \A i \in DOMAIN whole.calls :
             \/ response.calls[i] = whole.calls[i]
             \/ /\ response.calls[i].raw = whole.calls[i].raw
                /\ whole.calls[i].raw \in {<<>>, Value}

=============================================================================
