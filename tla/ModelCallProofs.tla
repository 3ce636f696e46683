--------------------------- MODULE ModelCallProofs ---------------------------
(***************************************************************************)
(* Theorems about ModelCall: for any answers, any number of attempts, and  *)
(* any way to cut an answer into chunks.                                   *)
(*                                                                         *)
(* The argument is that what the accumulator holds and what the provider   *)
(* has not sent make up the answer, up to the deltas still to be taken.    *)
(***************************************************************************)
EXTENDS ModelCall, SequenceTheorems, FiniteSetTheorems, TLAPS

-----------------------------------------------------------------------------
(* The inductive invariant.  Its parts are operators on the answer a, what *)
(* is left of it l, whether its calls are numbered x, the attempt t, a     *)
(* buffer b and deltas ds, so that the facts about a chunk are facts about *)
(* these values alone.                                                     *)

(* The empty string is named because no prover knows that it is in STRING. *)
Names  == STRING \cup {NoName}
Called == [name : Names, raw : Seq(STRING)]

(* Texts of an attempt, and how long they are. *)
Texts(t)   == Seq({t})
Size(r)    == Len(r.content)
TextLen(l) == Len(l.text)

AnswerOK(a, t) ==
  /\ a \in [content : Texts(t), calls : Seq(Called), finish : Names]
  /\ \A i \in DOMAIN a.calls : \A k \in 0..Len(a.calls[i].raw) :
       IsObject(SubSeq(a.calls[i].raw, 1, k)) => k = Len(a.calls[i].raw)

LeftTypes(a, t) ==
  [text : Texts(t), begun : 0..Len(a.calls), raws : [1..Len(a.calls) -> Seq(STRING)], ended : BOOLEAN]

AllSent(a, l) ==
  l.text = <<>> /\ l.begun = Len(a.calls) /\ \A i \in 1..Len(a.calls) : l.raws[i] = <<>>

(* The calls that are not begun have all of their arguments, and the end   *)
(* comes last.                                                             *)
LeftOK(a, l, t) ==
  /\ l \in LeftTypes(a, t)
  /\ \A i \in (l.begun + 1)..Len(a.calls) : l.raws[i] = a.calls[i].raw
  /\ l.ended => AllSent(a, l)

Delta(t) == [text : Texts(t), index : Int, name : Names, args : Seq(STRING), finish : Names]

BufferOK(b, t) ==
  b.content \in Texts(t) /\ b.calls \in [DOMAIN b.calls -> Called] /\ b.finish \in Names

(* Taken and unsent text make up the answer's, or its text came with each  *)
(* of its calls.                                                           *)
TextAgrees(a, l, x, b) ==
  \/ Size(b) + TextLen(l) = Size(a)
  \/ /\ x /\ Len(a.calls) > 1 /\ l.begun = Len(a.calls) /\ l.text = <<>>
     /\ Size(b) = Len(a.calls) * Size(a)

CallsAgree(a, l, x, b) ==
  /\ DOMAIN b.calls = IF x THEN 1..l.begun ELSE {}
  /\ \A i \in DOMAIN b.calls :
       /\ b.calls[i].name = a.calls[i].name
       /\ b.calls[i].raw \o l.raws[i] = a.calls[i].raw

Agrees(a, l, x, t, b) ==
  /\ BufferOK(b, t)
  /\ TextAgrees(a, l, x, b)
  /\ CallsAgree(a, l, x, b)
  /\ b.finish = IF l.ended THEN a.finish ELSE ""

(* An answer with calls came in one chunk, and k of its deltas are taken. *)
Took(a, t, b, k) ==
  /\ BufferOK(b, t)
  /\ Size(b) = k * Size(a)
  /\ DOMAIN b.calls = 1..k
  /\ \A i \in 1..k : b.calls[i].name = a.calls[i].name /\ b.calls[i].raw = a.calls[i].raw
  /\ b.finish = ""

IsCallDelta(a, d, i) ==
  /\ d.text = a.content /\ d.index = i /\ d.name = a.calls[i].name /\ d.args = a.calls[i].raw
  /\ d.finish = ""

Taking(a, l, x, t, b, ds, k) ==
  /\ x /\ AllSent(a, l) /\ ~l.ended
  /\ Len(ds) = Len(a.calls) - k
  /\ \A j \in 1..(Len(a.calls) - k) : IsCallDelta(a, ds[j], k + j)
  /\ Took(a, t, b, k)

Fed(a, l, x, t, b, ds) ==
  /\ ds \in Seq(Delta(t))
  /\ \/ ds = <<>> /\ Agrees(a, l, x, t, b)
     \/ Len(ds) = 1 /\ Agrees(a, l, x, t, Add(b, ds[1]))
     \/ \E k \in 0..(Len(a.calls) - 1) : Taking(a, l, x, t, b, ds, k)

(* What the user is shown of a text. *)
MessagesOf(text) == IF text = <<>> THEN <<>> ELSE <<text>>

UiShows(u, text) ==
  /\ {"run", "last", "busy", "keys", "messages", "drafts"} \subseteq DOMAIN u
  /\ u.run = RunId /\ u.last \in Nat
  /\ u.keys = IF text = <<>> THEN <<>> ELSE <<1>>
  /\ u.messages = MessagesOf(text)
  /\ \/ u.drafts = <<>> /\ text = <<>>
     \/ u.drafts = [turn \in {1} |-> text]

Waiting == response = NoResponse /\ UiShows(ui, buffer.content)

Feeding ==
  /\ AnswerOK(answer, attempt) /\ LeftOK(answer, left, attempt)
  /\ Fed(answer, left, indexed, attempt, buffer, deltas)

HasAnswer ==
  /\ AnswerOK(answer, attempt)
  /\ streaming  => /\ LeftOK(answer, left, attempt)
                   /\ Agrees(answer, left, indexed, attempt, buffer)
                   /\ response = StreamedResponse(buffer)
  /\ ~streaming => buffer = EmptyBuffer /\ response = WholeResponse(answer)
  /\ ui.messages = MessagesOf(response.content)

Stages ==
  /\ phase \in {"asking", "reading", "failed"} => Waiting
  /\ phase = "asking" => ~yielded
  /\ phase = "reading" => streaming /\ Feeding
  /\ phase \in {"answered", "acted"} => HasAnswer
  /\ phase = "answered" => deltas = <<>>
  /\ phase = "cancelled" => Waiting \/ HasAnswer
  /\ phase = "acted" => action = Parse(response)

CallTypes ==
  /\ phase \in {"asking", "reading", "answered", "acted", "failed", "cancelled"}
  /\ {streaming, indexed, yielded} \subseteq BOOLEAN
  /\ attempt \in Nat
  /\ buffer.content \in Texts(attempt)
  /\ ~yielded => deltas = <<>> /\ buffer = EmptyBuffer

CallInv == CallTypes /\ Stages

-----------------------------------------------------------------------------
(* The user interface. *)

CallEvent(u, type, text) ==
  [type |-> type, run |-> RunId, seq |-> u.last + 1, turn |-> 1,
   call |-> NoName, text |-> text, status |-> "none"]

(* A later event of this run is reduced. *)
LEMMA Reduced ==
  ASSUME NEW text, UiShows(ui, text), NEW type, NEW more, Show(type, more)
  PROVE  /\ ui' = [Ui!ReduceCurrent(ui, CallEvent(ui, type, more)) EXCEPT
                      !.last = ui.last + 1, !.phase = Ui!PhaseAfter(ui, CallEvent(ui, type, more))]
         /\ CallEvent(ui, type, more).type = type
         /\ CallEvent(ui, type, more).turn = 1
         /\ CallEvent(ui, type, more).text = more
BY DEF UiShows, Show, Ui!Reduce, CallEvent

(* The draft of the only turn is the text shown. *)
LEMMA DraftShown ==
  ASSUME NEW text, UiShows(ui, text)
  PROVE  Ui!Draft(ui, 1) = text
BY DEF UiShows, Ui!Draft

(* The message of the only turn is replaced in place. *)
LEMMA MessageReplaced ==
  ASSUME NEW text, UiShows(ui, text), NEW more
  PROVE  Ui!Replaced(ui, 1, more) =
           IF text # <<>> THEN <<more>> ELSE MessagesOf(more)
<1>1. CASE text = <<>>
  <2>1. ui.keys = <<>> /\ ui.messages = <<>>
    BY <1>1 DEF UiShows, MessagesOf
  <2>2. 1 \notin Ui!ToSet(ui.keys)
    BY <2>1 DEF Ui!ToSet
  <2>. QED BY <1>1, <2>1, <2>2 DEF Ui!Replaced, MessagesOf
<1>2. CASE text # <<>>
  <2>1. ui.keys = <<1>> /\ ui.messages = <<text>>
    BY <1>2 DEF UiShows, MessagesOf
  <2>2. 1 \in Ui!ToSet(ui.keys)
    BY <2>1 DEF Ui!ToSet
  <2>3. {i \in 1..Len(ui.keys) : ui.keys[i] = 1} = {1}
    BY <2>1
  <2>4. Ui!Place(ui.keys, 1) = 1
    BY <2>3 DEF Ui!Place, Ui!SelectInSeq, Ui!Min
  <2>. QED BY <1>2, <2>1, <2>2, <2>4 DEF Ui!Replaced
<1>. QED BY <1>1, <1>2

(* Nothing is shown when the call begins. *)
LEMMA UiStarts ==
  ASSUME ui = [Ui!InitialUi(RunId) EXCEPT !.busy = TRUE, !.phase = "thinking"]
  PROVE  UiShows(ui, <<>>)
BY DEF UiShows, Ui!InitialUi, MessagesOf

(* A delta is added to the text shown. *)
LEMMA DeltaShown ==
  ASSUME NEW text \in Texts(attempt), NEW more \in Texts(attempt),
         UiShows(ui, text), Show("ModelDelta", more)
  PROVE  UiShows(ui', text \o more)
<1>. DEFINE e == CallEvent(ui, "ModelDelta", more)
            doing == Ui!PhaseAfter(ui, e)
            new == text \o more
<1>0. /\ ui' = [Ui!ReduceCurrent(ui, e) EXCEPT !.last = ui.last + 1, !.phase = doing]
      /\ e.type = "ModelDelta" /\ e.turn = 1 /\ e.text = more
  BY Reduced
<1>. HIDE DEF e, doing
<1>1. ui' = [Ui!Streamed(ui, e) EXCEPT !.last = ui.last + 1, !.phase = doing]
  BY <1>0 DEF Ui!ReduceCurrent, Ui!RunEnds
<1>2. Ui!Streamed(ui, e) =
        [ui EXCEPT !.busy = TRUE, !.drafts = Ui!With(@, 1, new), !.messages = Ui!Replaced(ui, 1, new),
                   !.keys = IF new = <<>> THEN @ ELSE Ui!Upsert(@, 1)]
  BY <1>0, DraftShown DEF Ui!Streamed
<1>3. text # <<>> => new # <<>>
  BY DEF Texts
<1>4. Ui!Replaced(ui, 1, new) = MessagesOf(new)
  BY <1>3, MessageReplaced DEF MessagesOf
<1>5. (IF new = <<>> THEN ui.keys ELSE Ui!Upsert(ui.keys, 1)) = IF new = <<>> THEN <<>> ELSE <<1>>
  <2>1. text = <<>> => ui.keys = <<>>
    BY DEF UiShows
  <2>2. text # <<>> => ui.keys = <<1>>
    BY DEF UiShows
  <2>3. Ui!Upsert(<<>>, 1) = <<1>>
    BY DEF Ui!Upsert, Ui!ToSet
  <2>4. Ui!Upsert(<<1>>, 1) = <<1>>
    BY DEF Ui!Upsert, Ui!ToSet
  <2>. HIDE DEF new
  <2>. QED BY <1>3, <2>1, <2>2, <2>3, <2>4
<1>6. Ui!With(ui.drafts, 1, new) = [turn \in {1} |-> new]
  <2>1. ui.drafts = <<>> \/ ui.drafts = [turn \in {1} |-> text]
    BY DEF UiShows
  <2>2. DOMAIN ui.drafts \cup {1} = {1}
    BY <2>1
  <2>. QED BY <2>2 DEF Ui!With
<1>. HIDE DEF new
<1>. DEFINE drafts == [turn \in {1} |-> new]
<1>7. ui' = [[ui EXCEPT !.busy = TRUE, !.drafts = drafts, !.messages = MessagesOf(new),
                        !.keys = IF new = <<>> THEN <<>> ELSE <<1>>]
             EXCEPT !.last = ui.last + 1, !.phase = doing]
  BY <1>1, <1>2, <1>4, <1>5, <1>6
<1>. HIDE DEF drafts
<1>8. /\ {"run", "last", "busy", "keys", "messages", "drafts"} \subseteq DOMAIN ui
      /\ ui.run = RunId /\ ui.last + 1 \in Nat
  BY DEF UiShows
<1>9. /\ {"run", "last", "busy", "keys", "messages", "drafts"} \subseteq DOMAIN ui'
      /\ ui'.run = RunId /\ ui'.last \in Nat
      /\ ui'.keys = IF new = <<>> THEN <<>> ELSE <<1>>
      /\ ui'.messages = MessagesOf(new)
      /\ ui'.drafts = drafts
  BY <1>7, <1>8
<1>. QED BY <1>9 DEF UiShows, drafts, new

(* The answer takes the place of the text shown. *)
LEMMA AnswerShown ==
  ASSUME NEW text, UiShows(ui, text), NEW more, text # <<>> => more = text, Show("ModelCompleted", more)
  PROVE  ui'.messages = MessagesOf(more)
<1>. DEFINE e == CallEvent(ui, "ModelCompleted", more)
            doing == Ui!PhaseAfter(ui, e)
<1>0. /\ ui' = [Ui!ReduceCurrent(ui, e) EXCEPT !.last = ui.last + 1, !.phase = doing]
      /\ e.type = "ModelCompleted" /\ e.turn = 1 /\ e.text = more
  BY Reduced
<1>. HIDE DEF e, doing
<1>1. ui' = [Ui!Answered(ui, e) EXCEPT !.last = ui.last + 1, !.phase = doing]
  BY <1>0 DEF Ui!ReduceCurrent, Ui!RunEnds
<1>2. Ui!Answered(ui, e).messages =
        IF more # <<>> \/ text # <<>> THEN Ui!Replaced(ui, 1, more) ELSE ui.messages
  BY <1>0, DraftShown DEF Ui!Answered, UiShows
<1>3. ui'.messages = Ui!Answered(ui, e).messages
  BY <1>1 DEF Ui!Answered, UiShows
<1>4. ui.messages = MessagesOf(text)
  BY DEF UiShows
<1>. QED BY <1>2, <1>3, <1>4, MessageReplaced DEF MessagesOf

(* A failure leaves the text that is shown. *)
LEMMA FailureShown ==
  ASSUME NEW text, UiShows(ui, text), Show("ModelFailed", <<>>)
  PROVE  UiShows(ui', text)
<1>. DEFINE e == CallEvent(ui, "ModelFailed", <<>>)
            doing == Ui!PhaseAfter(ui, e)
<1>0. ui' = [Ui!ReduceCurrent(ui, e) EXCEPT !.last = ui.last + 1, !.phase = doing] /\ e.type = "ModelFailed"
  BY Reduced
<1>. HIDE DEF e, doing
<1>1. ui' = [[ui EXCEPT !.busy = FALSE] EXCEPT !.last = ui.last + 1, !.phase = doing]
  BY <1>0 DEF Ui!ReduceCurrent, Ui!RunEnds
<1>. QED BY <1>1 DEF UiShows

-----------------------------------------------------------------------------
(* The accumulator. *)

(* Two texts of one attempt differ in their lengths only. *)
LEMMA SameText ==
  ASSUME NEW t, NEW s \in Texts(t), NEW u \in Texts(t), Len(s) = Len(u)
  PROVE  s = u
BY DEF Texts

(* Two texts in a row. *)
LEMMA LongerText ==
  ASSUME NEW t, NEW r \in Texts(t), NEW s \in Texts(t)
  PROVE  Len(r \o s) = Len(r) + Len(s) /\ Len(r) \in Nat /\ Len(s) \in Nat
BY DEF Texts

(* The first fragment of the rest, joined to what came before it. *)
LEMMA Joined ==
  ASSUME NEW S, NEW r \in Seq(S), NEW s \in Seq(S), s # <<>>
  PROVE  (r \o <<Head(s)>>) \o Tail(s) = r \o s
OBVIOUS

(* c is b with one more delta. *)
Grown(t, b, d, c) ==
  /\ BufferOK(c, t)
  /\ Size(c) = Size(b) + TextLen(d) /\ Size(b) \in Nat /\ TextLen(d) \in Nat
  /\ c.finish = IF d.finish = "" THEN b.finish ELSE d.finish
  /\ d.index = NoIndex => c.calls = b.calls
  /\ d.index # NoIndex =>
       /\ DOMAIN c.calls = DOMAIN b.calls \cup {d.index}
       /\ \A i \in DOMAIN b.calls \ {d.index} : c.calls[i] = b.calls[i]
       /\ d.index \in DOMAIN b.calls =>
            /\ c.calls[d.index].name = IF d.name = NoName THEN b.calls[d.index].name ELSE d.name
            /\ c.calls[d.index].raw = b.calls[d.index].raw \o d.args
       /\ d.index \notin DOMAIN b.calls =>
            c.calls[d.index].name = d.name /\ c.calls[d.index].raw = d.args

(* The accumulator grows by one delta. *)
LEMMA Buffered ==
  ASSUME NEW t, NEW b, BufferOK(b, t), NEW d \in Delta(t)
  PROVE  Grown(t, b, d, Add(b, d))
<1>. DEFINE call  == IF d.index \in DOMAIN b.calls THEN b.calls[d.index] ELSE [name |-> NoName, raw |-> <<>>]
            added == [name |-> IF d.name = NoName THEN call.name ELSE d.name, raw |-> call.raw \o d.args]
            calls == [i \in DOMAIN b.calls \cup {d.index} |-> IF i = d.index THEN added ELSE b.calls[i]]
            all    == IF d.index = NoIndex THEN b.calls ELSE calls
            text   == b.content \o d.text
            finish == IF d.finish = "" THEN b.finish ELSE d.finish
<1>1. Add(b, d) = [content |-> text, calls |-> all, finish |-> finish]
  BY DEF Add
<1>2. call.name \in Names /\ call.raw \in Seq(STRING)
  <2>1. CASE d.index \in DOMAIN b.calls
    <3>1. call = b.calls[d.index] /\ call \in Called
      BY <2>1 DEF BufferOK
    <3>. HIDE DEF call
    <3>. QED BY <3>1 DEF Called
  <2>2. CASE d.index \notin DOMAIN b.calls
    BY <2>2 DEF Names
  <2>. QED BY <2>1, <2>2
<1>3. d.index \notin DOMAIN b.calls => call.name = NoName /\ call.raw = <<>>
  OBVIOUS
<1>4. d.index \in DOMAIN b.calls => call = b.calls[d.index]
  OBVIOUS
<1>. HIDE DEF call
<1>5. d.name \in Names /\ d.args \in Seq(STRING) /\ d.text \in Texts(t) /\ d.finish \in Names
  BY DEF Delta
<1>6. /\ added.name = IF d.name = NoName THEN call.name ELSE d.name
      /\ added.raw = call.raw \o d.args
  OBVIOUS
<1>7. added \in Called
  <2>1. added.name \in Names /\ added.raw \in Seq(STRING)
    BY <1>2, <1>5, <1>6
  <2>2. added = [name |-> added.name, raw |-> added.raw]
    OBVIOUS
  <2>. HIDE DEF added
  <2>. QED BY <2>1, <2>2 DEF Called
<1>. HIDE DEF added
<1>8. d.index \notin DOMAIN b.calls => added.name = d.name /\ added.raw = d.args
  <2>1. <<>> \o d.args = d.args
    BY <1>5
  <2>. QED BY <1>3, <1>6, <2>1
<1>9. /\ DOMAIN calls = DOMAIN b.calls \cup {d.index}
      /\ calls[d.index] = added
      /\ \A i \in DOMAIN b.calls \ {d.index} : calls[i] = b.calls[i]
      /\ calls \in [DOMAIN calls -> Called]
  BY <1>7 DEF BufferOK
<1>10. text \in Texts(t) /\ finish \in Names
  <2>1. text \in Texts(t)
    BY <1>5 DEF BufferOK, Texts
  <2>2. finish \in Names
    BY <1>5 DEF BufferOK
  <2>. QED BY <2>1, <2>2
<1>11. (d.index = NoIndex => all = b.calls) /\ (d.index # NoIndex => all = calls)
  OBVIOUS
<1>. HIDE DEF calls
<1>12. all \in [DOMAIN all -> Called]
  BY <1>9, <1>11 DEF BufferOK
<1>. HIDE DEF all
<1>13. Add(b, d).content = text /\ Add(b, d).calls = all /\ Add(b, d).finish = finish
  <2>. HIDE DEF text, finish
  <2>. QED BY <1>1
<1>14. BufferOK(Add(b, d), t)
  BY <1>10, <1>12, <1>13 DEF BufferOK
<1>15. Size(Add(b, d)) = Size(b) + TextLen(d) /\ Size(b) \in Nat /\ TextLen(d) \in Nat
  <2>1. b.content \in Texts(t) /\ d.text \in Texts(t) /\ Add(b, d).content = b.content \o d.text
    BY <1>5, <1>13 DEF BufferOK
  <2>. QED BY <2>1, LongerText, Zenon DEF Size, TextLen
<1>. DEFINE c == Add(b, d)
<1>16. /\ BufferOK(c, t) /\ c.calls = all /\ c.finish = finish
       /\ Size(c) = Size(b) + TextLen(d) /\ Size(b) \in Nat /\ TextLen(d) \in Nat
  BY <1>13, <1>14, <1>15
<1>. HIDE DEF c
<1>. QED BY <1>4, <1>6, <1>8, <1>9, <1>11, <1>16 DEF Grown, c

(* Before a stream, nothing is taken and nothing is sent. *)
LEMMA EmptyAgrees ==
  ASSUME NEW t, NEW a, AnswerOK(a, t), NEW x \in BOOLEAN
  PROVE  LeftOK(a, Unsent(a), t) /\ Agrees(a, Unsent(a), x, t, EmptyBuffer)
<1>. DEFINE l == Unsent(a)
            raws == [i \in DOMAIN a.calls |-> a.calls[i].raw]
<1>0. /\ raws \in [1..Len(a.calls) -> Seq(STRING)]
      /\ \A i \in 1..Len(a.calls) : raws[i] = a.calls[i].raw
      /\ a.content \in Texts(t) /\ Len(a.calls) \in Nat
  <2>1. a.calls \in Seq(Called) /\ a.content \in Texts(t)
    BY DEF AnswerOK
  <2>2. DOMAIN a.calls = 1..Len(a.calls) /\ \A i \in DOMAIN a.calls : a.calls[i] \in Called
    BY <2>1
  <2>3. \A i \in DOMAIN a.calls : a.calls[i].raw \in Seq(STRING)
    BY <2>2 DEF Called
  <2>. QED BY <2>1, <2>2, <2>3
<1>1. /\ l.text = a.content /\ l.begun = 0 /\ l.ended = FALSE /\ l.raws = raws
      /\ l \in LeftTypes(a, t)
  <2>. HIDE DEF raws
  <2>1. l = [text |-> a.content, begun |-> 0, raws |-> raws, ended |-> FALSE]
    BY DEF raws, Unsent
  <2>. HIDE DEF l
  <2>. QED BY <1>0, <2>1 DEF LeftTypes
<1>2. LeftOK(a, l, t)
  BY <1>0, <1>1 DEF LeftOK
<1>3. /\ EmptyBuffer.content = <<>> /\ EmptyBuffer.calls = <<>> /\ EmptyBuffer.finish = ""
      /\ DOMAIN EmptyBuffer.calls = {}
      /\ EmptyBuffer.content \in Texts(t)
  BY DEF EmptyBuffer, Texts
<1>4. BufferOK(EmptyBuffer, t)
  <2>1. EmptyBuffer.calls \in [{} -> Called]
    <3>1. <<>> \in [{} -> Called]
      OBVIOUS
    <3>. QED BY <1>3, <3>1
  <2>. QED BY <1>3, <2>1 DEF BufferOK, Names, NoName
<1>. HIDE DEF l
<1>5. TextAgrees(a, l, x, EmptyBuffer)
  <2>1. Size(a) \in Nat /\ TextLen(l) = Size(a)
    BY <1>0, <1>1, LongerText, Zenon DEF Size, TextLen
  <2>2. Size(EmptyBuffer) = 0
    BY DEF EmptyBuffer, Size
  <2>. QED BY <2>1, <2>2 DEF TextAgrees
<1>6. CallsAgree(a, l, x, EmptyBuffer)
  <2>1. 1..l.begun = {}
    BY <1>1
  <2>. QED BY <1>3, <2>1 DEF CallsAgree
<1>7. Agrees(a, l, x, t, EmptyBuffer)
  BY <1>1, <1>3, <1>4, <1>5, <1>6 DEF Agrees
<1>. QED BY <1>2, <1>7 DEF l

-----------------------------------------------------------------------------
(* The chunks: each keeps the agreement, once its delta is taken. *)

OneDelta(t, ds) == ds \in Seq(Delta(t)) /\ Len(ds) = 1 /\ ds[1] \in Delta(t)

(* A sequence of one. *)
LEMMA Single ==
  ASSUME NEW S, NEW d \in S, NEW ds, ds = <<d>>
  PROVE  ds \in Seq(S) /\ Len(ds) = 1 /\ ds[1] = d /\ DOMAIN ds = 1..1 /\ ds # <<>>
OBVIOUS

(* A text without its first character. *)
LEMMA FirstCharacter ==
  ASSUME NEW t, NEW s \in Texts(t), s # <<>>
  PROVE  /\ <<Head(s)>> \in Texts(t) /\ Len(<<Head(s)>>) = 1
         /\ Tail(s) \in Texts(t) /\ Len(s) \in Nat /\ Len(Tail(s)) = Len(s) - 1
BY DEF Texts

(* A chunk without a call is one delta. *)
LEMMA PlainDelta ==
  ASSUME NEW t, NEW text \in Texts(t), NEW finish \in Names,
         NEW ds, ds = ParseStreamChunk(Chunk(text, <<>>, finish))
  PROVE  /\ OneDelta(t, ds)
         /\ ds[1].text = text /\ ds[1].index = NoIndex /\ ds[1].finish = finish
<1>. DEFINE d == [text |-> text, index |-> NoIndex, name |-> NoName, args |-> <<>>, finish |-> finish]
<1>1. ds = <<d>>
  BY DEF ParseStreamChunk, Chunk
<1>2. d \in Delta(t)
  BY DEF Delta, Names, NoIndex
<1>3. d.text = text /\ d.index = NoIndex /\ d.finish = finish
  OBVIOUS
<1>. HIDE DEF d
<1>4. ds \in Seq(Delta(t)) /\ Len(ds) = 1 /\ ds[1] = d
  BY <1>1, <1>2, Single
<1>. QED BY <1>2, <1>3, <1>4 DEF OneDelta

(* A chunk with a call is one delta. *)
LEMMA CallDelta ==
  ASSUME NEW t, NEW text \in Texts(t), NEW i \in Nat, NEW name \in Names, NEW args \in Seq(STRING),
         NEW x \in BOOLEAN, NEW finish \in Names,
         NEW ds, ds = ParseStreamChunk(Chunk(text, <<CallPart(i, name, args, x)>>, finish))
  PROVE  /\ OneDelta(t, ds)
         /\ ds[1].text = text /\ ds[1].index = (IF x THEN i ELSE NoIndex)
         /\ ds[1].name = name /\ ds[1].args = args /\ ds[1].finish = finish
<1>. DEFINE index == IF x THEN i ELSE NoIndex
            part  == [index |-> index, name |-> name, args |-> args]
            calls == <<part>>
            d     == [text |-> text, index |-> index, name |-> name, args |-> args, finish |-> finish]
<1>1. ds = ParseStreamChunk([text |-> text, calls |-> calls, finish |-> finish])
  BY DEF Chunk, CallPart
<1>2. part.index = index /\ part.name = name /\ part.args = args
  OBVIOUS
<1>. HIDE DEF part
<1>3. calls # <<>> /\ DOMAIN calls = 1..1 /\ calls[1] = part
  BY Single
<1>. HIDE DEF calls
<1>4. ds = [j \in 1..1 |-> [text |-> text, index |-> calls[j].index, name |-> calls[j].name,
                            args |-> calls[j].args, finish |-> finish]]
  BY <1>1, <1>3 DEF ParseStreamChunk
<1>5. ds[1] = d /\ ds = [j \in 1..1 |-> ds[j]]
  BY <1>2, <1>3, <1>4
<1>6. index \in Int
  BY DEF NoIndex
<1>. HIDE DEF index
<1>7. d \in Delta(t)
  BY <1>6 DEF Delta
<1>8. d.text = text /\ d.index = index /\ d.name = name /\ d.args = args /\ d.finish = finish
  OBVIOUS
<1>. HIDE DEF d
<1>9. ds \in Seq(Delta(t)) /\ Len(ds) = 1
  <2>1. ds = <<ds[1]>>
    BY <1>5
  <2>2. ds[1] \in Delta(t)
    BY <1>5, <1>7
  <2>. HIDE <1>5
  <2>. QED BY <2>1, <2>2, Single
<1>. QED BY <1>5, <1>7, <1>8, <1>9 DEF index, OneDelta

(* One more character of the text. *)
LEMMA TextSent ==
  ASSUME NEW t, NEW a, NEW l, LeftOK(a, l, t), NEW x \in BOOLEAN, NEW b, Agrees(a, l, x, t, b),
         NEW d \in Delta(t), TextLen(d) = 1, d.index = NoIndex, d.finish = NoName,
         NEW m \in LeftTypes(a, t), ~m.ended, ~l.ended, m.begun = l.begun, m.raws = l.raws,
         l.text # <<>>, TextLen(l) \in Nat, TextLen(m) = TextLen(l) - 1
  PROVE  LeftOK(a, m, t) /\ Agrees(a, m, x, t, Add(b, d))
<1>. DEFINE c == Add(b, d)
<1>1. LeftOK(a, m, t)
  BY DEF LeftOK
<1>2. BufferOK(b, t)
  BY DEF Agrees
<1>3. Grown(t, b, d, c)
  BY <1>2, Buffered
<1>. HIDE DEF c
<1>4. /\ BufferOK(c, t) /\ Size(c) = Size(b) + 1 /\ Size(b) \in Nat
      /\ c.finish = b.finish /\ c.calls = b.calls
  BY <1>3 DEF Grown, NoName
<1>5. Size(b) + TextLen(l) = Size(a)
  BY DEF Agrees, TextAgrees
<1>6. Size(c) + TextLen(m) = Size(a)
  BY <1>4, <1>5
<1>7. CallsAgree(a, m, x, c)
  BY <1>4 DEF Agrees, CallsAgree
<1>. QED BY <1>1, <1>4, <1>6, <1>7 DEF Agrees, TextAgrees, c

(* A delta without text adds none. *)
LEMMA NoTextAdded ==
  ASSUME NEW t, NEW b, NEW d, NEW c, Grown(t, b, d, c), TextLen(d) = 0
  PROVE  BufferOK(c, t) /\ Size(c) = Size(b)
<1>1. Size(c) = Size(b) + TextLen(d) /\ Size(b) \in Nat
  BY DEF Grown
<1>2. Size(b) + 0 = Size(b)
  BY <1>1
<1>. QED BY <1>1, <1>2 DEF Grown

(* A delta without a finish reason adds none. *)
LEMMA NoFinishAdded ==
  ASSUME NEW t, NEW b, NEW d, NEW c, Grown(t, b, d, c), d.finish = NoName
  PROVE  c.finish = b.finish
BY DEF Grown, NoName

(* The beginning of the next call. *)
LEMMA HeaderSent ==
  ASSUME NEW t, NEW a, NEW l, LeftOK(a, l, t), NEW x \in BOOLEAN, NEW b, Agrees(a, l, x, t, b),
         Len(a.calls) \in Nat, l.begun < Len(a.calls),
         NEW d \in Delta(t), TextLen(d) = 0, d.index = IF x THEN l.begun + 1 ELSE NoIndex,
         d.name = a.calls[l.begun + 1].name, d.args = NoArgs, d.finish = NoName,
         NEW m \in LeftTypes(a, t), ~m.ended, ~l.ended, m.text = l.text, m.begun = l.begun + 1,
         m.raws = l.raws
  PROVE  LeftOK(a, m, t) /\ Agrees(a, m, x, t, Add(b, d))
<1>. DEFINE c == Add(b, d)
            n == l.begun + 1
<1>1. l.begun \in 0..Len(a.calls) /\ n \in 1..Len(a.calls)
  BY DEF LeftOK, LeftTypes
<1>2. LeftOK(a, m, t)
  BY <1>1 DEF LeftOK
<1>3. BufferOK(b, t) /\ b.finish = ""
  BY DEF Agrees
<1>4. Grown(t, b, d, c)
  BY <1>3, Buffered
<1>. HIDE DEF c
<1>5. BufferOK(c, t) /\ Size(c) = Size(b) /\ c.finish = b.finish
  BY <1>4, NoTextAdded, NoFinishAdded
<1>6. TextLen(m) = TextLen(l)
  BY DEF TextLen
<1>9. TextAgrees(a, l, x, b)
  BY DEF Agrees
<1>10. l.begun # Len(a.calls)
  BY <1>1
<1>7. TextAgrees(a, m, x, c)
  BY <1>5, <1>6, <1>9, <1>10 DEF TextAgrees
<1>8. CallsAgree(a, m, x, c)
  <2>1. CASE ~x
    <3>1. c.calls = b.calls
      BY <1>4, <2>1 DEF Grown
    <3>. QED BY <2>1, <3>1 DEF Agrees, CallsAgree
  <2>2. CASE x
    <3>0. DOMAIN b.calls = 1..l.begun
      BY <2>2 DEF Agrees, CallsAgree
    <3>1. DOMAIN b.calls = 1..l.begun /\ n \notin 1..l.begun /\ (1..l.begun) \cup {n} = 1..n
      <4>1. l.begun \in Nat
        BY <1>1
      <4>. HIDE <1>1
      <4>2. n \notin 1..l.begun /\ (1..l.begun) \cup {n} = 1..n
        BY <4>1
      <4>. QED BY <3>0, <4>2
    <3>2. d.index = n /\ n # NoIndex
      BY <1>1, <2>2 DEF NoIndex
    <3>3. /\ DOMAIN c.calls = 1..n
          /\ \A i \in 1..l.begun : c.calls[i] = b.calls[i]
          /\ c.calls[n].name = a.calls[n].name /\ c.calls[n].raw = d.args
      BY <1>4, <3>1, <3>2 DEF Grown
    <3>4. c.calls[n].raw \o m.raws[n] = a.calls[n].raw
      <4>1. l.raws[n] = a.calls[n].raw /\ l.raws[n] \in Seq(STRING)
        BY <1>1 DEF LeftOK, LeftTypes
      <4>2. <<>> \o l.raws[n] = l.raws[n]
        BY <4>1
      <4>. QED BY <3>3, <4>1, <4>2 DEF NoArgs
    <3>. QED BY <1>1, <2>2, <3>1, <3>3, <3>4 DEF Agrees, CallsAgree
  <2>. QED BY <2>1, <2>2
<1>. QED BY <1>2, <1>3, <1>5, <1>7, <1>8 DEF Agrees, c

(* One more fragment of the arguments of a call that was begun. *)
LEMMA FragmentSent ==
  ASSUME NEW t, NEW a, NEW l, LeftOK(a, l, t), NEW x \in BOOLEAN, NEW b, Agrees(a, l, x, t, b),
         Len(a.calls) \in Nat, NEW i \in 1..l.begun,
         NEW d \in Delta(t), TextLen(d) = 0, d.index = IF x THEN i ELSE NoIndex,
         d.name = NoName, d.finish = NoName,
         NEW m \in LeftTypes(a, t), ~m.ended, ~l.ended, m.text = l.text, m.begun = l.begun,
         \A j \in (1..Len(a.calls)) \ {i} : m.raws[j] = l.raws[j],
         \A r \in Seq(STRING) : (r \o d.args) \o m.raws[i] = r \o l.raws[i]
  PROVE  LeftOK(a, m, t) /\ Agrees(a, m, x, t, Add(b, d))
<1>. DEFINE c == Add(b, d)
<1>1. l.begun \in 0..Len(a.calls) /\ i \in 1..Len(a.calls) /\ i # NoIndex
  BY DEF LeftOK, LeftTypes, NoIndex
<1>2. LeftOK(a, m, t)
  BY <1>1 DEF LeftOK
<1>3. BufferOK(b, t) /\ b.finish = ""
  BY DEF Agrees
<1>4. Grown(t, b, d, c)
  BY <1>3, Buffered
<1>. HIDE DEF c
<1>5. BufferOK(c, t) /\ Size(c) = Size(b) /\ c.finish = b.finish
  BY <1>4, NoTextAdded, NoFinishAdded
<1>6. TextLen(m) = TextLen(l)
  BY DEF TextLen
<1>7. TextAgrees(a, m, x, c)
  BY <1>5, <1>6 DEF Agrees, TextAgrees
<1>8. CallsAgree(a, m, x, c)
  <2>1. CASE ~x
    <3>1. c.calls = b.calls
      BY <1>4, <2>1 DEF Grown
    <3>. QED BY <2>1, <3>1 DEF Agrees, CallsAgree
  <2>2. CASE x
    <3>1. DOMAIN b.calls = 1..l.begun /\ d.index = i
      BY <2>2 DEF Agrees, CallsAgree
    <3>2. /\ DOMAIN c.calls = 1..l.begun
          /\ \A j \in (1..l.begun) \ {i} : c.calls[j] = b.calls[j]
          /\ c.calls[i].name = b.calls[i].name /\ c.calls[i].raw = b.calls[i].raw \o d.args
      BY <1>1, <1>4, <3>1 DEF Grown
    <3>3. b.calls[i].raw \in Seq(STRING)
      BY <1>3, <3>1 DEF BufferOK, Called
    <3>4. c.calls[i].raw \o m.raws[i] = b.calls[i].raw \o l.raws[i]
      BY <3>2, <3>3
    <3>5. \A j \in 1..l.begun : b.calls[j].name = a.calls[j].name /\ b.calls[j].raw \o l.raws[j] = a.calls[j].raw
      BY <3>1 DEF Agrees, CallsAgree
    <3>6. \A j \in 1..l.begun : j \in 1..Len(a.calls)
      BY <1>1
    <3>. QED BY <2>2, <3>2, <3>4, <3>5, <3>6 DEF CallsAgree
  <2>. QED BY <2>1, <2>2
<1>. QED BY <1>2, <1>3, <1>5, <1>7, <1>8 DEF Agrees, c

(* The finish reason, after all the rest. *)
LEMMA EndSent ==
  ASSUME NEW t, NEW a, NEW l, LeftOK(a, l, t), NEW x \in BOOLEAN, NEW b, Agrees(a, l, x, t, b),
         AllSent(a, l), NEW d \in Delta(t), TextLen(d) = 0, d.index = NoIndex, d.finish = a.finish,
         NEW m \in LeftTypes(a, t), m.ended, ~l.ended, m.text = l.text, m.begun = l.begun,
         m.raws = l.raws
  PROVE  LeftOK(a, m, t) /\ Agrees(a, m, x, t, Add(b, d))
<1>. DEFINE c == Add(b, d)
<1>1. AllSent(a, m)
  BY DEF AllSent
<1>2. LeftOK(a, m, t)
  BY <1>1 DEF LeftOK
<1>3. BufferOK(b, t) /\ b.finish = ""
  BY DEF Agrees
<1>4. Grown(t, b, d, c)
  BY <1>3, Buffered
<1>. HIDE DEF c
<1>5. BufferOK(c, t) /\ Size(c) = Size(b)
  BY <1>4, NoTextAdded
<1>9. c.finish = a.finish /\ c.calls = b.calls
  BY <1>3, <1>4 DEF Grown
<1>6. TextLen(m) = TextLen(l)
  BY DEF TextLen
<1>7. TextAgrees(a, m, x, c)
  BY <1>5, <1>6 DEF Agrees, TextAgrees
<1>8. CallsAgree(a, m, x, c)
  BY <1>9 DEF Agrees, CallsAgree
<1>. QED BY <1>2, <1>5, <1>7, <1>8, <1>9 DEF Agrees, c

(* The chunks that are the whole answer: without a call, or one delta for  *)
(* each of its calls.                                                      *)
LEMMA NothingTaken ==
  ASSUME NEW t, NEW a, NEW l, NEW b, Agrees(a, l, TRUE, t, b), Size(a) \in Nat,
         ~l.ended, l.begun = 0, TextLen(l) = Size(a)
  PROVE  Took(a, t, b, 0)
<1>1. BufferOK(b, t) /\ b.finish = ""
  BY DEF Agrees
<1>2. Size(b) \in Nat
  BY <1>1, LongerText, Zenon DEF BufferOK, Size
<1>3. Size(b) + TextLen(l) = Size(a)
  <2>1. ~(Len(a.calls) > 1 /\ l.begun = Len(a.calls))
    OBVIOUS
  <2>. QED BY <2>1 DEF Agrees, TextAgrees
<1>5. DOMAIN b.calls = 1..0
  BY DEF Agrees, CallsAgree
<1>4. Size(b) = 0 * Size(a)
  BY <1>2, <1>3
<1>6. (1..0) = {}
  OBVIOUS
<1>. QED BY <1>1, <1>4, <1>5, <1>6, Zenon DEF Took

(* An answer without a call, taken at once. *)
LEMMA TextAlone ==
  ASSUME NEW t, NEW a, NEW l, LeftOK(a, l, t), NEW b, Agrees(a, l, TRUE, t, b), Size(a) \in Nat,
         ~l.ended, l.begun = 0, TextLen(l) = Size(a), Len(a.calls) = 0,
         NEW d \in Delta(t), TextLen(d) = Size(a), d.index = NoIndex, d.finish = NoName,
         NEW m \in LeftTypes(a, t), ~m.ended, TextLen(m) = 0, AllSent(a, m)
  PROVE  LeftOK(a, m, t) /\ Agrees(a, m, TRUE, t, Add(b, d))
<1>. DEFINE c == Add(b, d)
<1>1. LeftOK(a, m, t)
  BY DEF LeftOK, AllSent
<1>2. Took(a, t, b, 0)
  BY NothingTaken
<1>3. Grown(t, b, d, c)
  BY <1>2, Buffered DEF Took
<1>. HIDE DEF c
<1>4. c.finish = "" /\ c.calls = b.calls /\ DOMAIN b.calls = 1..0 /\ BufferOK(c, t)
  <2>1. c.finish = b.finish
    BY <1>3, NoFinishAdded, Zenon
  <2>2. b.finish = "" /\ DOMAIN b.calls = 1..0
    BY <1>2 DEF Took
  <2>3. c.calls = b.calls /\ BufferOK(c, t)
    BY <1>3 DEF Grown
  <2>. QED BY <2>1, <2>2, <2>3
<1>5. Size(b) = 0 /\ Size(c) = Size(b) + Size(a)
  <2>1. Size(b) = 0 * Size(a)
    BY <1>2 DEF Took
  <2>2. 0 * Size(a) = 0
    OBVIOUS
  <2>3. Size(c) = Size(b) + TextLen(d)
    BY <1>3 DEF Grown
  <2>. QED BY <2>1, <2>2, <2>3
<1>6. Size(c) + TextLen(m) = Size(a)
  BY <1>5
<1>7. CallsAgree(a, m, TRUE, c)
  <2>1. m.begun = 0
    BY DEF AllSent
  <2>2. (1..0) = {}
    OBVIOUS
  <2>3. DOMAIN c.calls = 1..m.begun /\ DOMAIN c.calls = {}
    BY <1>4, <2>1, <2>2, Zenon
  <2>. QED BY <2>3, Zenon DEF CallsAgree
<1>. QED BY <1>1, <1>4, <1>6, <1>7 DEF Agrees, TextAgrees, c

(* One more call of an answer that came in one chunk. *)
LEMMA OneMoreTaken ==
  ASSUME NEW t, NEW a, Size(a) \in Nat, NEW b, NEW k \in Nat, Took(a, t, b, k),
         NEW d \in Delta(t), IsCallDelta(a, d, k + 1)
  PROVE  Took(a, t, Add(b, d), k + 1)
<1>. DEFINE c == Add(b, d)
            n == k + 1
<1>1. Grown(t, b, d, c)
  BY Buffered DEF Took
<1>. HIDE DEF c
<1>2. BufferOK(c, t) /\ c.finish = ""
  BY <1>1, NoFinishAdded DEF Grown, Took, IsCallDelta, NoName
<1>3. Size(c) = n * Size(a)
  <2>1. Size(b) = k * Size(a) /\ TextLen(d) = Size(a)
    BY DEF Took, IsCallDelta, TextLen, Size
  <2>2. Size(c) = Size(b) + TextLen(d)
    BY <1>1 DEF Grown
  <2>3. k * Size(a) + Size(a) = n * Size(a)
    OBVIOUS
  <2>. QED BY <2>1, <2>2, <2>3
<1>4. DOMAIN b.calls = 1..k /\ n \notin 1..k /\ (1..k) \cup {n} = 1..n /\ n # NoIndex /\ d.index = n
  <2>1. DOMAIN b.calls = 1..k /\ d.index = n
    BY DEF Took, IsCallDelta
  <2>2. n \notin 1..k /\ (1..k) \cup {n} = 1..n
    OBVIOUS
  <2>3. n # NoIndex
    BY DEF NoIndex
  <2>. QED BY <2>1, <2>2, <2>3
<1>5. /\ DOMAIN c.calls = 1..n
      /\ \A i \in 1..k : c.calls[i] = b.calls[i]
      /\ c.calls[n].name = a.calls[n].name /\ c.calls[n].raw = a.calls[n].raw
  BY <1>1, <1>4 DEF Grown, IsCallDelta
<1>6. \A i \in 1..n : c.calls[i].name = a.calls[i].name /\ c.calls[i].raw = a.calls[i].raw
  BY <1>4, <1>5 DEF Took
<1>. QED BY <1>2, <1>3, <1>5, <1>6 DEF Took, c

(* The last call of an answer that came in one chunk. *)
LEMMA AllTaken ==
  ASSUME NEW t, NEW a, AnswerOK(a, t), NEW l, AllSent(a, l), ~l.ended, TextLen(l) = 0,
         NEW b, Took(a, t, b, Len(a.calls)), Len(a.calls) \in Nat \ {0}, Size(a) \in Nat
  PROVE  Agrees(a, l, TRUE, t, b)
<1>1. TextAgrees(a, l, TRUE, b)
  <2>1. CASE Len(a.calls) = 1
    <3>1. Size(b) = 1 * Size(a)
      BY <2>1 DEF Took
    <3>2. Size(b) + TextLen(l) = Size(a)
      BY <3>1
    <3>. QED BY <3>2 DEF TextAgrees
  <2>2. CASE Len(a.calls) > 1
    <3>1. Size(b) = Len(a.calls) * Size(a) /\ l.begun = Len(a.calls) /\ l.text = <<>>
      BY DEF Took, AllSent
    <3>. QED BY <2>2, <3>1, Zenon DEF TextAgrees
  <2>3. \A n \in Nat \ {0} : n = 1 \/ n > 1
    OBVIOUS
  <2>. QED BY <2>1, <2>2, <2>3, Zenon
<1>2. CallsAgree(a, l, TRUE, b)
  <2>1. DOMAIN b.calls = 1..l.begun /\ l.begun = Len(a.calls)
    BY DEF Took, AllSent
  <2>2. ASSUME NEW i \in 1..Len(a.calls)
        PROVE  b.calls[i].name = a.calls[i].name /\ b.calls[i].raw \o l.raws[i] = a.calls[i].raw
    <3>1. b.calls[i].raw = a.calls[i].raw /\ b.calls[i].name = a.calls[i].name /\ l.raws[i] = <<>>
      BY DEF Took, AllSent
    <3>2. b.calls[i].raw \in Seq(STRING)
      BY <2>1 DEF Took, BufferOK, Called
    <3>3. b.calls[i].raw \o <<>> = b.calls[i].raw
      BY <3>2
    <3>. QED BY <3>1, <3>3
  <2>. QED BY <2>1, <2>2 DEF CallsAgree
<1>. QED BY <1>1, <1>2 DEF Agrees, Took

-----------------------------------------------------------------------------
(* The client's steps keep what was fed in agreement with what is left. *)

(* The parts of an answer. *)
LEMMA AnswerParts ==
  ASSUME NEW t, NEW a, AnswerOK(a, t)
  PROVE  /\ a.content \in Texts(t) /\ a.calls \in Seq(Called) /\ a.finish \in Names
         /\ Len(a.calls) \in Nat /\ DOMAIN a.calls = 1..Len(a.calls)
         /\ \A i \in 1..Len(a.calls) : a.calls[i].name \in Names /\ a.calls[i].raw \in Seq(STRING)
         /\ Size(a) \in Nat
<1>1. a.content \in Texts(t) /\ a.calls \in Seq(Called) /\ a.finish \in Names
  BY DEF AnswerOK
<1>2. Len(a.calls) \in Nat /\ DOMAIN a.calls = 1..Len(a.calls)
  BY <1>1
<1>3. \A i \in 1..Len(a.calls) : a.calls[i] \in Called
  BY <1>1
<1>4. \A i \in 1..Len(a.calls) : a.calls[i].name \in Names /\ a.calls[i].raw \in Seq(STRING)
  BY <1>3 DEF Called
<1>5. Size(a) \in Nat
  BY <1>1, LongerText, Zenon DEF Size
<1>. QED BY <1>1, <1>2, <1>4, <1>5

(* The empty text, name and arguments. *)
LEMMA EmptyText ==
  ASSUME NEW t
  PROVE  <<>> \in Texts(t) /\ Len(<<>>) = 0 /\ NoName \in Names /\ NoArgs \in Seq(STRING)
BY DEF Texts, Names, NoArgs

(* One delta is pending. *)
LEMMA OnePending ==
  ASSUME NEW t, NEW a, NEW l, NEW x, NEW b, NEW ds, OneDelta(t, ds),
         Agrees(a, l, x, t, Add(b, ds[1]))
  PROVE  Fed(a, l, x, t, b, ds)
BY DEF Fed, OneDelta

(* Another chunk may be asked for. *)
Ready ==
  /\ AnswerOK(answer, attempt) /\ LeftOK(answer, left, attempt)
  /\ indexed \in BOOLEAN /\ ~left.ended
  /\ Agrees(answer, left, indexed, attempt, buffer)

(* SendText. *)
LEMMA TextIsSent ==
  ASSUME Ready, SendText
  PROVE  Feeding'
<1>. DEFINE a == answer
            t == attempt
            l == left
            m == left'
            ds == deltas'
            h == <<Head(left.text)>>
<1>1. /\ left.text # <<>> /\ left' = [left EXCEPT !.text = Tail(@)]
      /\ deltas' = ParseStreamChunk(Chunk(h, <<>>, ""))
      /\ UNCHANGED <<answer, attempt, indexed, buffer>>
  BY DEF SendText, Sends
<1>2. l.text \in Texts(t) /\ l \in LeftTypes(a, t)
  BY DEF Ready, LeftOK, LeftTypes
<1>3. /\ h \in Texts(t) /\ Len(h) = 1 /\ Tail(l.text) \in Texts(t)
      /\ Len(l.text) \in Nat /\ Len(Tail(l.text)) = Len(l.text) - 1
  BY <1>1, <1>2, FirstCharacter
<1>. HIDE DEF h
<1>4. OneDelta(t, ds) /\ ds[1].text = h /\ ds[1].index = NoIndex /\ ds[1].finish = NoName
  <2>1. deltas' = ParseStreamChunk(Chunk(h, <<>>, NoName))
    BY <1>1 DEF NoName
  <2>. QED BY <1>3, <2>1, PlainDelta, EmptyText
<1>5. /\ m \in LeftTypes(a, t) /\ m.text = Tail(l.text) /\ m.begun = l.begun /\ m.raws = l.raws
      /\ m.ended = l.ended
  BY <1>1, <1>2, <1>3 DEF LeftTypes
<1>6. TextLen(l) \in Nat /\ TextLen(m) = TextLen(l) - 1
  BY <1>3, <1>5 DEF TextLen
<1>7. ds[1] \in Delta(t) /\ TextLen(ds[1]) = 1 /\ ds[1].finish = NoName
  BY <1>3, <1>4, Zenon DEF TextLen, OneDelta
<1>8. LeftOK(a, m, t) /\ Agrees(a, m, indexed, t, Add(buffer, ds[1]))
  BY <1>1, <1>4, <1>5, <1>6, <1>7, TextSent DEF Ready
<1>9. Fed(a, m, indexed, t, buffer, ds)
  BY <1>4, <1>8, OnePending
<1>. QED BY <1>1, <1>8, <1>9 DEF Feeding, Ready

(* SendHeader. *)
LEMMA HeaderIsSent ==
  ASSUME Ready, SendHeader
  PROVE  Feeding'
<1>. DEFINE a == answer
            t == attempt
            l == left
            m == left'
            ds == deltas'
            n == left.begun + 1
            name == answer.calls[n].name
            none == <<>>
<1>1. /\ l.begun < Len(a.calls) /\ m = [l EXCEPT !.begun = @ + 1]
      /\ ds = ParseStreamChunk(Chunk(none, <<CallPart(n, name, NoArgs, indexed)>>, NoName))
      /\ UNCHANGED <<answer, attempt, indexed, buffer>>
  BY DEF SendHeader, Sends, Header, NoArgs, NoName
<1>2. /\ Len(a.calls) \in Nat
      /\ \A i \in 1..Len(a.calls) : a.calls[i].name \in Names
  BY AnswerParts DEF Ready
<1>3. l \in LeftTypes(a, t)
  BY DEF Ready, LeftOK
<1>4. l.begun \in 0..Len(a.calls)
  BY <1>3 DEF LeftTypes
<1>5. n \in 1..Len(a.calls)
  BY <1>1, <1>2, <1>4
<1>6. /\ OneDelta(t, ds) /\ ds[1].text = none
      /\ ds[1].index = (IF indexed THEN n ELSE NoIndex)
      /\ ds[1].name = name /\ ds[1].args = NoArgs /\ ds[1].finish = NoName
  <2>1. name \in Names /\ n \in Nat
    BY <1>2, <1>5
  <2>2. indexed \in BOOLEAN
    BY DEF Ready
  <2>3. none \in Texts(t) /\ NoName \in Names /\ NoArgs \in Seq(STRING)
    BY EmptyText
  <2>. HIDE DEF n, name, none
  <2>. QED BY <1>1, <2>1, <2>2, <2>3, CallDelta
<1>7. /\ m \in LeftTypes(a, t) /\ m.text = l.text /\ m.begun = n /\ m.raws = l.raws
      /\ m.ended = l.ended
  BY <1>1, <1>3, <1>5 DEF LeftTypes
<1>8. ds[1] \in Delta(t) /\ TextLen(ds[1]) = 0
  BY <1>6, EmptyText, Zenon DEF TextLen, OneDelta
<1>9. LeftOK(a, m, t) /\ Agrees(a, m, indexed, t, Add(buffer, ds[1]))
  BY <1>1, <1>2, <1>6, <1>7, <1>8, HeaderSent DEF Ready
<1>10. Fed(a, m, indexed, t, buffer, ds)
  BY <1>6, <1>9, OnePending
<1>. QED BY <1>1, <1>9, <1>10 DEF Feeding, Ready

(* SendFragment. *)
LEMMA FragmentIsSent ==
  ASSUME Ready, NEW i \in 1..left.begun, SendFragment(i)
  PROVE  Feeding'
<1>. DEFINE a == answer
            t == attempt
            l == left
            m == left'
            ds == deltas'
            piece == <<Head(left.raws[i])>>
            none == <<>>
<1>1. /\ l.raws[i] # <<>> /\ m = [l EXCEPT !.raws[i] = Tail(@)]
      /\ ds = ParseStreamChunk(Chunk(none, <<CallPart(i, NoName, piece, indexed)>>, NoName))
      /\ UNCHANGED <<answer, attempt, indexed, buffer>>
  BY DEF SendFragment, Sends, Fragment, NoName
<1>2. Len(a.calls) \in Nat
  BY AnswerParts DEF Ready
<1>3. l \in LeftTypes(a, t)
  BY DEF Ready, LeftOK
<1>4. /\ l.begun \in 0..Len(a.calls) /\ l.raws \in [1..Len(a.calls) -> Seq(STRING)]
  BY <1>3 DEF LeftTypes
<1>5. i \in 1..Len(a.calls) /\ i \in Nat
  BY <1>2, <1>4
<1>6. /\ l.raws[i] \in Seq(STRING) /\ piece \in Seq(STRING) /\ Tail(l.raws[i]) \in Seq(STRING)
      /\ \A r \in Seq(STRING) : (r \o piece) \o Tail(l.raws[i]) = r \o l.raws[i]
  <2>1. l.raws[i] \in Seq(STRING)
    BY <1>4, <1>5
  <2>2. \A s \in Seq(STRING) : s # <<>> => <<Head(s)>> \in Seq(STRING) /\ Tail(s) \in Seq(STRING)
    OBVIOUS
  <2>. QED BY <1>1, <2>1, <2>2, Joined
<1>. HIDE DEF piece
<1>7. /\ OneDelta(t, ds) /\ ds[1].text = none
      /\ ds[1].index = (IF indexed THEN i ELSE NoIndex)
      /\ ds[1].name = NoName /\ ds[1].args = piece /\ ds[1].finish = NoName
  <2>2. indexed \in BOOLEAN
    BY DEF Ready
  <2>3. none \in Texts(t) /\ NoName \in Names
    BY EmptyText
  <2>. HIDE DEF none
  <2>. QED BY <1>1, <1>5, <1>6, <2>2, <2>3, CallDelta
<1>8. /\ m.raws = [l.raws EXCEPT ![i] = Tail(@)]
      /\ m.raws \in [1..Len(a.calls) -> Seq(STRING)]
      /\ m.raws[i] = Tail(l.raws[i])
      /\ \A j \in (1..Len(a.calls)) \ {i} : m.raws[j] = l.raws[j]
      /\ m.text = l.text /\ m.begun = l.begun /\ m.ended = l.ended
  <2>1. m.raws = [l.raws EXCEPT ![i] = Tail(@)] /\ m.text = l.text /\ m.begun = l.begun /\ m.ended = l.ended
    BY <1>1, <1>3 DEF LeftTypes
  <2>. QED BY <1>4, <1>5, <1>6, <2>1
<1>9. m \in LeftTypes(a, t)
  <2>1. /\ m.text \in Texts(t) /\ m.begun \in 0..Len(a.calls) /\ m.ended \in BOOLEAN
        /\ m = [text |-> m.text, begun |-> m.begun, raws |-> m.raws, ended |-> m.ended]
    BY <1>1, <1>3, <1>8 DEF LeftTypes
  <2>. HIDE DEF m
  <2>. QED BY <1>8, <2>1 DEF LeftTypes
<1>10. ds[1] \in Delta(t) /\ TextLen(ds[1]) = 0
  BY <1>7, EmptyText, Zenon DEF TextLen, OneDelta
<1>11. LeftOK(a, m, t) /\ Agrees(a, m, indexed, t, Add(buffer, ds[1]))
  <2>1. /\ LeftOK(a, l, t) /\ indexed \in BOOLEAN /\ Agrees(a, l, indexed, t, buffer) /\ ~l.ended
        /\ ~m.ended /\ i \in 1..l.begun
    BY <1>8 DEF Ready
  <2>2. \A r \in Seq(STRING) : (r \o ds[1].args) \o m.raws[i] = r \o l.raws[i]
    BY <1>6, <1>7, <1>8
  <2>3. /\ ds[1].index = (IF indexed THEN i ELSE NoIndex) /\ ds[1].name = NoName /\ ds[1].finish = NoName
        /\ m.text = l.text /\ m.begun = l.begun
        /\ \A j \in (1..Len(a.calls)) \ {i} : m.raws[j] = l.raws[j]
    BY <1>7, <1>8
  <2>. HIDE DEF ds, m, l, a, t
  <2>. QED BY <1>2, <1>9, <1>10, <2>1, <2>2, <2>3, FragmentSent
<1>12. Fed(a, m, indexed, t, buffer, ds)
  BY <1>7, <1>11, OnePending
<1>. QED BY <1>1, <1>11, <1>12 DEF Feeding, Ready

(* SendEnd. *)
LEMMA EndIsSent ==
  ASSUME Ready, SendEnd
  PROVE  Feeding'
<1>. DEFINE a == answer
            t == attempt
            l == left
            m == left'
            ds == deltas'
            none == <<>>
<1>1. /\ l = AllButEnd(a) /\ m = [l EXCEPT !.ended = TRUE]
      /\ ds = ParseStreamChunk(Chunk(none, <<>>, a.finish))
      /\ UNCHANGED <<answer, attempt, indexed, buffer>>
  BY DEF SendEnd, Sends
<1>2. Len(a.calls) \in Nat /\ DOMAIN a.calls = 1..Len(a.calls) /\ a.finish \in Names
  BY AnswerParts DEF Ready
<1>3. l \in LeftTypes(a, t)
  BY DEF Ready, LeftOK
<1>4. AllSent(a, l)
  <2>. HIDE DEF a, l
  <2>. QED BY <1>1, <1>2 DEF AllSent, AllButEnd
<1>5. OneDelta(t, ds) /\ ds[1].text = none /\ ds[1].index = NoIndex /\ ds[1].finish = a.finish
  <2>1. none \in Texts(t)
    BY EmptyText
  <2>. HIDE DEF none
  <2>. QED BY <1>1, <1>2, <2>1, PlainDelta
<1>6. /\ m \in LeftTypes(a, t) /\ m.text = l.text /\ m.begun = l.begun /\ m.raws = l.raws
      /\ m.ended
  <2>1. m = [l EXCEPT !.ended = TRUE]
    BY <1>1
  <2>. QED BY <1>3, <2>1 DEF LeftTypes
<1>7. ds[1] \in Delta(t) /\ TextLen(ds[1]) = 0
  BY <1>5, EmptyText, Zenon DEF TextLen, OneDelta
<1>8. LeftOK(a, m, t) /\ Agrees(a, m, indexed, t, Add(buffer, ds[1]))
  BY <1>1, <1>4, <1>5, <1>6, <1>7, EndSent DEF Ready
<1>9. Fed(a, m, indexed, t, buffer, ds)
  BY <1>5, <1>8, OnePending
<1>. QED BY <1>1, <1>8, <1>9 DEF Feeding, Ready

(* An answer with calls in one chunk: a delta for each of its calls. *)
LEMMA CallsAtOnce ==
  ASSUME NEW t, NEW a, AnswerOK(a, t), Len(a.calls) # 0, NEW ds, ds = ParseStreamChunk(AtOnce(a))
  PROVE  /\ ds \in Seq(Delta(t)) /\ Len(ds) = Len(a.calls)
         /\ \A j \in 1..Len(a.calls) : IsCallDelta(a, ds[j], j)
<1>. DEFINE n == Len(a.calls)
            part(i) == CallPart(i, a.calls[i].name, a.calls[i].raw, TRUE)
            parts == [i \in 1..n |-> part(i)]
            delta(i) == [text |-> a.content, index |-> i, name |-> a.calls[i].name,
                         args |-> a.calls[i].raw, finish |-> NoName]
<1>1. /\ n \in Nat /\ DOMAIN a.calls = 1..n /\ n # 0 /\ a.content \in Texts(t)
      /\ \A i \in 1..n : a.calls[i].name \in Names /\ a.calls[i].raw \in Seq(STRING)
  BY AnswerParts
<1>2. AtOnce(a) = [text |-> a.content, calls |-> parts, finish |-> NoName]
  BY <1>1 DEF AtOnce, Chunk, NoName
<1>3. \A i \in 1..n : part(i).index = i /\ part(i).name = a.calls[i].name /\ part(i).args = a.calls[i].raw
  BY DEF CallPart
<1>. HIDE DEF part
<1>4. DOMAIN parts = 1..n /\ \A i \in 1..n : parts[i] = part(i)
  OBVIOUS
<1>5. parts # <<>>
  BY <1>1, <1>4
<1>. HIDE DEF parts
<1>6. AtOnce(a).text = a.content /\ AtOnce(a).calls = parts /\ AtOnce(a).finish = NoName
  BY <1>2
<1>7. ds = [i \in 1..n |-> [text |-> a.content, index |-> parts[i].index, name |-> parts[i].name,
                            args |-> parts[i].args, finish |-> NoName]]
  BY <1>4, <1>5, <1>6 DEF ParseStreamChunk
<1>8. DOMAIN ds = 1..n /\ \A i \in 1..n : ds[i] = delta(i)
  BY <1>3, <1>4, <1>7
<1>9. \A i \in 1..n : delta(i) \in Delta(t)
  <2>1. NoName \in Names
    BY EmptyText
  <2>. QED BY <1>1, <2>1 DEF Delta
<1>10. \A i \in 1..n : IsCallDelta(a, delta(i), i)
  BY DEF IsCallDelta, NoName
<1>11. ds = [i \in 1..n |-> delta(i)]
  BY <1>3, <1>4, <1>7
<1>. HIDE DEF delta, n
<1>12. ds \in Seq(Delta(t)) /\ Len(ds) = n
  BY <1>1, <1>9, <1>11
<1>. QED BY <1>8, <1>10, <1>12 DEF n

(* After it, nothing but the end is left. *)
LEMMA EverythingSent ==
  ASSUME NEW t, NEW a, AnswerOK(a, t), NEW m, m = AllButEnd(a)
  PROVE  /\ m \in LeftTypes(a, t) /\ ~m.ended /\ AllSent(a, m) /\ TextLen(m) = 0
         /\ LeftOK(a, m, t)
<1>1. Len(a.calls) \in Nat /\ DOMAIN a.calls = 1..Len(a.calls)
  BY AnswerParts
<1>. DEFINE none == <<>>
            raws == [i \in 1..Len(a.calls) |-> <<>>]
<1>2. none \in Texts(t) /\ Len(none) = 0 /\ none = <<>>
  BY EmptyText
<1>3. raws \in [1..Len(a.calls) -> Seq(STRING)] /\ \A i \in 1..Len(a.calls) : raws[i] = <<>>
  OBVIOUS
<1>4. m = [text |-> none, begun |-> Len(a.calls), raws |-> raws, ended |-> FALSE]
  BY <1>1 DEF AllButEnd
<1>. HIDE DEF none, raws
<1>5. m.text = none /\ m.begun = Len(a.calls) /\ m.raws = raws /\ m.ended = FALSE
  BY <1>4
<1>6. m \in LeftTypes(a, t)
  BY <1>1, <1>2, <1>3, <1>4 DEF LeftTypes
<1>7. AllSent(a, m) /\ TextLen(m) = 0
  BY <1>2, <1>3, <1>5 DEF AllSent, TextLen
<1>8. (Len(a.calls) + 1)..Len(a.calls) = {}
  BY <1>1
<1>9. LeftOK(a, m, t)
  BY <1>5, <1>6, <1>7, <1>8, Zenon DEF LeftOK
<1>. QED BY <1>5, <1>6, <1>7, <1>9

(* SendAtOnce. *)
LEMMA AllIsSent ==
  ASSUME Ready, SendAtOnce
  PROVE  Feeding'
<1>. DEFINE a == answer
            t == attempt
            l == left
            m == left'
            ds == deltas'
            none == <<>>
<1>1. /\ l = Unsent(a) /\ m = AllButEnd(a) /\ indexed = TRUE
      /\ ds = ParseStreamChunk(AtOnce(a))
      /\ UNCHANGED <<answer, attempt, indexed, buffer>>
  BY DEF SendAtOnce, Sends, Ready
<1>2. /\ Len(a.calls) \in Nat /\ DOMAIN a.calls = 1..Len(a.calls) /\ a.content \in Texts(t)
      /\ Size(a) \in Nat
  BY AnswerParts DEF Ready
<1>3. m \in LeftTypes(a, t) /\ ~m.ended /\ AllSent(a, m) /\ TextLen(m) = 0 /\ LeftOK(a, m, t)
  BY <1>1, EverythingSent DEF Ready
<1>4. /\ LeftOK(a, l, t) /\ Agrees(a, l, TRUE, t, buffer) /\ ~l.ended /\ AnswerOK(a, t)
  BY <1>1 DEF Ready
<1>5. l.begun = 0 /\ TextLen(l) = Size(a)
  <2>1. l.begun = 0 /\ l.text = a.content
    BY <1>1 DEF Unsent
  <2>. QED BY <2>1 DEF TextLen, Size
<1>6. Fed(a, m, TRUE, t, buffer, ds)
  <2>1. CASE Len(a.calls) = 0
    <3>1. a.calls = <<>> /\ [i \in DOMAIN a.calls |-> CallPart(i, a.calls[i].name, a.calls[i].raw, TRUE)] = <<>>
      <4>1. a.calls \in Seq(Called)
        BY <1>4 DEF AnswerOK
      <4>2. DOMAIN a.calls = {}
        BY <1>2, <2>1
      <4>. QED BY <2>1, <4>1, <4>2
    <3>2. ds = ParseStreamChunk(Chunk(a.content, <<>>, NoName))
      BY <1>1, <3>1 DEF AtOnce, NoName
    <3>3. NoName \in Names
      BY EmptyText
    <3>4. /\ OneDelta(t, ds)
          /\ ds[1].text = a.content /\ ds[1].index = NoIndex /\ ds[1].finish = NoName
      <4>. HIDE DEF ds
      <4>. QED BY <1>2, <3>2, <3>3, PlainDelta
    <3>5. ds[1] \in Delta(t) /\ TextLen(ds[1]) = Size(a)
      BY <3>4, Zenon DEF OneDelta, TextLen, Size
    <3>6. Agrees(a, m, TRUE, t, Add(buffer, ds[1]))
      <4>. HIDE DEF a, t, l, m, ds
      <4>. QED BY <1>2, <1>3, <1>4, <1>5, <2>1, <3>4, <3>5, TextAlone
    <3>. QED BY <3>4, <3>6, OnePending
  <2>2. CASE Len(a.calls) # 0
    <3>1. /\ ds \in Seq(Delta(t)) /\ Len(ds) = Len(a.calls)
          /\ \A j \in 1..Len(a.calls) : IsCallDelta(a, ds[j], j)
      <4>. HIDE DEF ds
      <4>. QED BY <1>1, <1>4, <2>2, CallsAtOnce
    <3>2. Took(a, t, buffer, 0)
      BY <1>2, <1>4, <1>5, NothingTaken
    <3>3. Taking(a, m, TRUE, t, buffer, ds, 0)
      <4>1. Len(a.calls) - 0 = Len(a.calls) /\ \A j \in 1..Len(a.calls) : 0 + j = j
        BY <1>2
      <4>. HIDE DEF a, t, m, ds
      <4>. QED BY <1>3, <3>1, <3>2, <4>1 DEF Taking
    <3>4. 0 \in 0..(Len(a.calls) - 1)
      BY <1>2, <2>2
    <3>. HIDE DEF a, t, m, ds
    <3>. QED BY <3>1, <3>3, <3>4, Zenon DEF Fed
  <2>. QED BY <2>1, <2>2
<1>. QED BY <1>1, <1>3, <1>4, <1>6 DEF Feeding

(* The delta that is taken, and those that are not. *)
LEMMA HeadAndTail ==
  ASSUME NEW S, NEW s \in Seq(S), s # <<>>
  PROVE  /\ Head(s) \in S /\ Head(s) = s[1] /\ Tail(s) \in Seq(S)
         /\ Len(s) \in Nat /\ Len(Tail(s)) = Len(s) - 1
         /\ \A j \in 1..(Len(s) - 1) : Tail(s)[j] = s[j + 1]
         /\ Len(s) = 1 => Tail(s) = <<>>
<1>1. Head(s) \in S /\ Head(s) = s[1] /\ Tail(s) \in Seq(S)
  BY HeadTailProperties
<1>2. Len(s) \in Nat /\ Len(Tail(s)) = Len(s) - 1
  BY HeadTailProperties
<1>3. \A j \in 1..(Len(s) - 1) : Tail(s)[j] = s[j + 1]
  BY HeadTailProperties
<1>4. Len(s) = 1 => Tail(s) = <<>>
  <2>1. Len(s) = 1 => Len(Tail(s)) = 0
    BY <1>2
  <2>2. Tail(s) # <<>> => Len(Tail(s)) \in Nat \ {0}
    BY <1>1, EmptySeq, Zenon
  <2>. QED BY <2>1, <2>2
<1>. QED BY <1>1, <1>2, <1>3, <1>4

(* A sequence over a set is one over a larger set. *)
LEMMA WiderSeq ==
  ASSUME NEW A, NEW B, A \subseteq B, NEW s \in Seq(A)
  PROVE  s \in Seq(B)
<1>1. Len(s) \in Nat /\ s \in [1..Len(s) -> B]
  OBVIOUS
<1>. QED BY <1>1

(* Taking a delta keeps what was fed in agreement. *)
LEMMA DeltaTaken ==
  ASSUME NEW t, NEW a, AnswerOK(a, t), NEW l, NEW x \in BOOLEAN, NEW b, NEW ds,
         Fed(a, l, x, t, b, ds), ds # <<>>
  PROVE  /\ Fed(a, l, x, t, Add(b, Head(ds)), Tail(ds))
         /\ Head(ds) \in Delta(t)
<1>. DEFINE d == Head(ds)
            c == Add(b, Head(ds))
            rest == Tail(ds)
            n == Len(a.calls)
<1>1. /\ ds \in Seq(Delta(t)) /\ d \in Delta(t) /\ d = ds[1] /\ rest \in Seq(Delta(t))
      /\ Len(ds) \in Nat /\ Len(rest) = Len(ds) - 1
      /\ \A j \in 1..(Len(ds) - 1) : rest[j] = ds[j + 1]
      /\ Len(ds) = 1 => rest = <<>>
  <2>1. ds \in Seq(Delta(t))
    BY DEF Fed
  <2>. QED BY <2>1, HeadAndTail DEF Fed
<1>2. n \in Nat /\ Size(a) \in Nat
  BY AnswerParts
<1>. HIDE DEF d, rest
<1>3. c = Add(b, d)
  BY DEF d
<1>. HIDE DEF c
<1>4. ASSUME Len(ds) = 1, Agrees(a, l, x, t, Add(b, ds[1]))
      PROVE  Fed(a, l, x, t, c, rest)
  BY <1>1, <1>3, <1>4 DEF Fed
<1>5. ASSUME NEW k \in 0..(n - 1), Taking(a, l, x, t, b, ds, k)
      PROVE  Fed(a, l, x, t, c, rest)
  <2>1. /\ x = TRUE /\ AllSent(a, l) /\ ~l.ended /\ Len(ds) = n - k
        /\ \A j \in 1..(n - k) : IsCallDelta(a, ds[j], k + j)
        /\ Took(a, t, b, k)
    BY <1>5 DEF Taking
  <2>2. k \in Nat /\ 1 \in 1..(n - k)
    BY <1>2
  <2>3. IsCallDelta(a, d, k + 1)
    BY <1>1, <2>1, <2>2
  <2>. HIDE DEF n
  <2>4. Took(a, t, c, k + 1)
    BY <1>1, <1>2, <1>3, <2>1, <2>2, <2>3, OneMoreTaken
  <2>5. CASE k = n - 1
    <3>1. n - k = 1 /\ k + 1 = n /\ n \in Nat \ {0}
      BY <1>2, <2>2, <2>5
    <3>2. rest = <<>>
      BY <1>1, <2>1, <3>1
    <3>3. TextLen(l) = 0
      BY <2>1, EmptyText, Zenon DEF AllSent, TextLen
    <3>4. Agrees(a, l, TRUE, t, c)
      <4>1. Took(a, t, c, Len(a.calls)) /\ Len(a.calls) \in Nat \ {0}
        BY <2>4, <3>1 DEF n
      <4>. QED BY <1>2, <2>1, <3>3, <4>1, AllTaken
    <3>. QED BY <1>1, <2>1, <3>2, <3>4 DEF Fed
  <2>6. CASE k # n - 1
    <3>1. k + 1 \in 0..(n - 1) /\ n - k - 1 = n - (k + 1)
      BY <1>2, <2>6
    <3>2. Len(rest) = n - (k + 1)
      BY <1>1, <2>1, <3>1
    <3>3. ASSUME NEW j \in 1..(n - (k + 1))
          PROVE  IsCallDelta(a, rest[j], (k + 1) + j)
      <4>1. j + 1 \in 1..(n - k) /\ k + (j + 1) = (k + 1) + j /\ j \in 1..((n - k) - 1)
        BY <1>2, <2>2
      <4>2. rest[j] = ds[j + 1]
        BY <1>1, <2>1, <4>1
      <4>3. IsCallDelta(a, ds[j + 1], k + (j + 1))
        BY <2>1, <4>1
      <4>. QED BY <4>1, <4>2, <4>3
    <3>4. Taking(a, l, x, t, c, rest, k + 1)
      BY <2>1, <2>4, <3>2, <3>3, Zenon DEF Taking, n
    <3>. QED BY <1>1, <3>1, <3>4, Zenon DEF Fed, n
  <2>. QED BY <2>5, <2>6
<1>. QED BY <1>1, <1>3, <1>4, <1>5 DEF Fed, d, rest, c, n

(* The answer of an attempt carries its number. *)
LEMMA AnAnswer ==
  ASSUME Answering
  PROVE  AnswerOK(answer', attempt)
<1>1. PICK a \in Answers : answer' = [a EXCEPT !.content = [i \in DOMAIN @ |-> attempt]]
  BY DEF Answering
<1>2. /\ a \in [content : Seq({0}), calls : Seq([name : STRING, raw : Seq(STRING)]), finish : STRING]
      /\ \A i \in DOMAIN a.calls : \A k \in 0..Len(a.calls[i].raw) :
           IsObject(SubSeq(a.calls[i].raw, 1, k)) => k = Len(a.calls[i].raw)
  BY AnswersAssumption
<1>. DEFINE text == [i \in DOMAIN a.content |-> attempt]
<1>3. /\ answer'.content = text /\ answer'.calls = a.calls /\ answer'.finish = a.finish
      /\ answer' = [content |-> answer'.content, calls |-> answer'.calls, finish |-> answer'.finish]
  BY <1>1, <1>2
<1>4. text \in Texts(attempt)
  <2>1. a.content \in Seq({0})
    BY <1>2
  <2>2. DOMAIN a.content = 1..Len(a.content) /\ Len(a.content) \in Nat
    BY <2>1
  <2>. QED BY <2>2 DEF Texts
<1>5. a.calls \in Seq(Called) /\ a.finish \in Names
  <2>1. [name : STRING, raw : Seq(STRING)] \subseteq Called
    BY DEF Called, Names
  <2>2. a.calls \in Seq([name : STRING, raw : Seq(STRING)]) /\ a.finish \in STRING
    BY <1>2
  <2>3. a.calls \in Seq(Called)
    BY <2>1, <2>2, WiderSeq
  <2>. QED BY <2>2, <2>3 DEF Names
<1>6. answer' \in [content : Texts(attempt), calls : Seq(Called), finish : Names]
  <2>. HIDE DEF text
  <2>. QED BY <1>3, <1>4, <1>5
<1>. QED BY <1>2, <1>3, <1>6 DEF AnswerOK

(* Between two chunks the buffer agrees with what is left. *)
LEMMA NothingPending ==
  ASSUME NEW t, NEW a, AnswerOK(a, t), NEW l, NEW x, NEW b, NEW ds, Fed(a, l, x, t, b, ds), ds = <<>>
  PROVE  Agrees(a, l, x, t, b)
<1>1. Len(ds) = 0 /\ Len(a.calls) \in Nat
  BY AnswerParts, EmptyText
<1>2. \A k \in 0..(Len(a.calls) - 1) : Len(ds) # Len(a.calls) - k
  BY <1>1
<1>. QED BY <1>1, <1>2 DEF Fed, Taking

-----------------------------------------------------------------------------
(* Every step keeps the invariant. *)

(* The stream opens. *)
LEMMA OpenKeeps ==
  ASSUME CallInv, OpenStream
  PROVE  CallInv'
<1>1. /\ phase = "asking" /\ streaming /\ Answering /\ left' = Unsent(answer') /\ indexed' \in BOOLEAN
      /\ phase' = "reading" /\ yielded' = FALSE
      /\ UNCHANGED <<streaming, attempt, deltas, buffer, response, action, ui, cancelled>>
  BY DEF OpenStream
<1>2. Waiting /\ deltas = <<>> /\ buffer = EmptyBuffer /\ CallTypes
  BY <1>1 DEF CallInv, Stages, CallTypes
<1>3. AnswerOK(answer', attempt)
  BY <1>1, AnAnswer
<1>4. LeftOK(answer', left', attempt) /\ Agrees(answer', left', indexed', attempt, buffer)
  BY <1>1, <1>2, <1>3, EmptyAgrees
<1>5. Fed(answer', left', indexed', attempt, buffer, deltas)
  <2>1. deltas \in Seq(Delta(attempt))
    BY <1>2
  <2>. QED BY <1>2, <1>4, <2>1 DEF Fed
<1>6. Waiting'
  BY <1>1, <1>2 DEF Waiting, UiShows
<1>7. CallTypes'
  BY <1>1, <1>2 DEF CallTypes
<1>8. Feeding'
  BY <1>1, <1>3, <1>4, <1>5 DEF Feeding
<1>9. Stages'
  BY <1>1, <1>6, <1>8 DEF Stages
<1>. QED BY <1>7, <1>9 DEF CallInv

(* A whole answer is received. *)
LEMMA WholeKeeps ==
  ASSUME CallInv, ReceiveWhole
  PROVE  CallInv'
<1>1. /\ phase = "asking" /\ ~streaming /\ Answering /\ phase' = "answered"
      /\ response' = WholeResponse(answer') /\ Show("ModelCompleted", answer'.content)
      /\ UNCHANGED <<streaming, attempt, left, indexed, yielded, deltas, buffer, action, cancelled>>
  BY DEF ReceiveWhole
<1>2. Waiting /\ deltas = <<>> /\ buffer = EmptyBuffer /\ CallTypes
  BY <1>1 DEF CallInv, Stages, CallTypes
<1>3. AnswerOK(answer', attempt)
  BY <1>1, AnAnswer
<1>4. ui'.messages = MessagesOf(answer'.content)
  <2>1. UiShows(ui, <<>>)
    BY <1>2 DEF Waiting, EmptyBuffer
  <2>. QED BY <1>1, <2>1, AnswerShown
<1>5. WholeResponse(answer').content = answer'.content
  BY DEF WholeResponse
<1>6. HasAnswer'
  BY <1>1, <1>2, <1>3, <1>4, <1>5 DEF HasAnswer
<1>7. CallTypes'
  BY <1>1, <1>2 DEF CallTypes
<1>8. Stages'
  BY <1>1, <1>2, <1>6 DEF Stages
<1>. QED BY <1>7, <1>8 DEF CallInv

(* A chunk is read. *)
LEMMA ChunkKeeps ==
  ASSUME CallInv, ReadChunk
  PROVE  CallInv'
<1>1. /\ phase = "reading" /\ deltas = <<>> /\ ~left.ended /\ yielded' = TRUE
      /\ UNCHANGED <<streaming, phase, attempt, answer, indexed, buffer, response, action, ui, cancelled>>
  BY DEF ReadChunk, SendText, SendHeader, SendFragment, SendAtOnce, SendEnd, Sends
<1>2. Waiting /\ streaming /\ Feeding /\ CallTypes
  BY <1>1 DEF CallInv, Stages
<1>3. Ready
  <2>1. Agrees(answer, left, indexed, attempt, buffer)
    BY <1>1, <1>2, NothingPending DEF Feeding
  <2>. QED BY <1>1, <1>2, <2>1 DEF Ready, Feeding, CallTypes
<1>4. Feeding'
  BY <1>3, TextIsSent, HeaderIsSent, FragmentIsSent, EndIsSent, AllIsSent DEF ReadChunk
<1>5. Waiting'
  BY <1>1, <1>2 DEF Waiting, UiShows
<1>6. CallTypes'
  BY <1>1, <1>2 DEF CallTypes
<1>7. Stages'
  BY <1>1, <1>2, <1>4, <1>5 DEF Stages
<1>. QED BY <1>6, <1>7 DEF CallInv

(* Another attempt: nothing was taken of the one before. *)
LEMMA RetryKeeps ==
  ASSUME CallInv, NEW kind \in Kinds, Retry(kind)
  PROVE  CallInv'
<1>1. /\ phase \in {"asking", "reading"} /\ ~yielded /\ phase' = "asking" /\ attempt' = attempt + 1
      /\ indexed' = TRUE
      /\ UNCHANGED <<streaming, yielded, deltas, buffer, response, action, ui, cancelled>>
  BY DEF Retry, CanRaise, MayRetry
<1>2. Waiting /\ CallTypes /\ deltas = <<>> /\ buffer = EmptyBuffer
  BY <1>1 DEF CallInv, Stages, CallTypes
<1>3. Waiting'
  BY <1>1, <1>2 DEF Waiting, UiShows
<1>4. buffer.content \in Texts(attempt')
  BY <1>2, EmptyText DEF EmptyBuffer
<1>5. CallTypes'
  BY <1>1, <1>2, <1>4 DEF CallTypes
<1>6. Stages'
  BY <1>1, <1>3 DEF Stages
<1>. QED BY <1>5, <1>6 DEF CallInv

(* The call fails. *)
LEMMA RaiseKeeps ==
  ASSUME CallInv, NEW kind \in Kinds, Raise(kind)
  PROVE  CallInv'
<1>1. /\ phase \in {"asking", "reading"} /\ phase' = "failed" /\ Show("ModelFailed", <<>>)
      /\ UNCHANGED <<streaming, attempt, provider, yielded, deltas, buffer, response, action, cancelled>>
  BY DEF Raise, CanRaise
<1>2. Waiting /\ CallTypes
  BY <1>1 DEF CallInv, Stages
<1>3. UiShows(ui', buffer.content)
  BY <1>1, <1>2, FailureShown DEF Waiting
<1>4. Waiting'
  BY <1>1, <1>2, <1>3 DEF Waiting, UiShows
<1>5. CallTypes'
  BY <1>1, <1>2 DEF CallTypes, provider
<1>6. Stages'
  BY <1>1, <1>4 DEF Stages
<1>. QED BY <1>5, <1>6 DEF CallInv

(* A delta is taken, and shown. *)
LEMMA TakeKeeps ==
  ASSUME CallInv, TakeDelta
  PROVE  CallInv'
<1>1. /\ deltas # <<>> /\ ~Over
      /\ buffer' = Add(buffer, Head(deltas)) /\ deltas' = Tail(deltas)
      /\ Show("ModelDelta", Head(deltas).text)
      /\ UNCHANGED <<streaming, phase, attempt, answer, left, indexed, yielded, response, action, cancelled>>
  BY DEF TakeDelta, provider
<1>2. phase = "reading" /\ yielded
  <2>1. yielded \in BOOLEAN
    BY DEF CallInv, CallTypes
  <2>. QED BY <1>1, <2>1 DEF CallInv, Stages, CallTypes, Over
<1>3. Waiting /\ CallTypes /\ streaming /\ Feeding
  BY <1>2 DEF CallInv, Stages
<1>4. indexed \in BOOLEAN /\ buffer.content \in Texts(attempt)
  BY <1>3 DEF CallTypes
<1>5. /\ Fed(answer, left, indexed, attempt, buffer', deltas')
      /\ Head(deltas) \in Delta(attempt)
  BY <1>1, <1>3, <1>4, DeltaTaken DEF Feeding
<1>6. Head(deltas).text \in Texts(attempt) /\ buffer'.content = buffer.content \o Head(deltas).text
  BY <1>1, <1>5 DEF Delta, Add
<1>7. UiShows(ui', buffer'.content)
  BY <1>1, <1>3, <1>4, <1>6, DeltaShown DEF Waiting
<1>8. Waiting'
  BY <1>1, <1>3, <1>7 DEF Waiting, UiShows
<1>9. Feeding'
  BY <1>1, <1>3, <1>5 DEF Feeding
<1>10. CallTypes'
  <2>1. buffer'.content \in Texts(attempt)
    BY <1>4, <1>6 DEF Texts
  <2>. QED BY <1>1, <1>2, <1>3, <2>1 DEF CallTypes
<1>11. Stages'
  BY <1>1, <1>2, <1>3, <1>8, <1>9 DEF Stages
<1>. QED BY <1>10, <1>11 DEF CallInv

(* The stream ends. *)
LEMMA EndKeeps ==
  ASSUME CallInv, EndStream
  PROVE  CallInv'
<1>1. /\ phase = "reading" /\ deltas = <<>> /\ phase' = "answered"
      /\ response' = StreamedResponse(buffer) /\ Show("ModelCompleted", buffer.content)
      /\ UNCHANGED <<streaming, attempt, answer, left, indexed, yielded, deltas, buffer, action, cancelled>>
  BY DEF EndStream, provider
<1>2. Waiting /\ streaming /\ Feeding /\ CallTypes
  BY <1>1 DEF CallInv, Stages
<1>3. Agrees(answer, left, indexed, attempt, buffer)
  BY <1>1, <1>2, NothingPending DEF Feeding
<1>4. ui'.messages = MessagesOf(buffer.content)
  BY <1>1, <1>2, AnswerShown DEF Waiting
<1>5. StreamedResponse(buffer).content = buffer.content
  BY DEF StreamedResponse
<1>6. HasAnswer'
  BY <1>1, <1>2, <1>3, <1>4, <1>5 DEF HasAnswer, Feeding
<1>7. CallTypes'
  BY <1>1, <1>2 DEF CallTypes
<1>8. Stages'
  BY <1>1, <1>6 DEF Stages
<1>. QED BY <1>7, <1>8 DEF CallInv

(* The steps that leave the answer and what is shown alone. *)
LEMMA OthersKeep ==
  ASSUME CallInv, Abandon \/ Act \/ Cancel \/ UNCHANGED callVars
  PROVE  CallInv'
<1>1. UNCHANGED <<streaming, attempt, answer, left, indexed, yielded, deltas, buffer, response, ui>>
  BY DEF Abandon, Act, Cancel, callVars, provider
<1>2. (Waiting => Waiting') /\ (HasAnswer => HasAnswer') /\ (Feeding => Feeding')
  BY <1>1 DEF Waiting, UiShows, HasAnswer, Feeding
<1>3. CallTypes /\ Stages
  BY DEF CallInv
<1>4. \/ phase' = "cancelled" /\ phase \in {"reading", "answered"}
      \/ phase' = "acted" /\ phase = "answered" /\ action' = Parse(response)
      \/ phase' = phase /\ action' = action
  BY DEF Abandon, Act, Cancel, callVars
<1>5. CallTypes'
  BY <1>1, <1>3, <1>4 DEF CallTypes
<1>6. Stages'
  BY <1>1, <1>2, <1>3, <1>4 DEF Stages
<1>. QED BY <1>5, <1>6 DEF CallInv

(* What the accumulator holds and what the provider has not sent make up   *)
(* the answer of this attempt, and the user is shown what the accumulator  *)
(* holds, or the answer.                                                   *)
THEOREM CallInvHolds == CallSpec => []CallInv
<1>1. CallInit => CallInv
  <2>. SUFFICES ASSUME CallInit PROVE CallInv
    OBVIOUS
  <2>1. UiShows(ui, <<>>)
    BY UiStarts DEF CallInit
  <2>2. Waiting
    BY <2>1 DEF CallInit, Waiting, EmptyBuffer
  <2>3. buffer.content \in Texts(attempt)
    BY EmptyText DEF CallInit, EmptyBuffer
  <2>4. CallTypes
    BY <2>3 DEF CallInit, CallTypes
  <2>5. Stages
    BY <2>2 DEF CallInit, Stages
  <2>. QED BY <2>4, <2>5 DEF CallInv
<1>2. CallInv /\ [CallNext]_callVars => CallInv'
  BY OpenKeeps, WholeKeeps, ChunkKeeps, RetryKeeps, RaiseKeeps, TakeKeeps, EndKeeps, OthersKeep
  DEF CallNext
<1>. QED BY <1>1, <1>2, PTL DEF CallSpec

-----------------------------------------------------------------------------
(* The answer, once there is one. *)

(* The calls are numbered from one on. *)
LEMMA NthOfInterval ==
  ASSUME NEW n \in Nat, NEW k \in 1..n
  PROVE  Nth(1..n, k) = k /\ Cardinality(1..n) = n
<1>1. ASSUME NEW i \in 1..n
      PROVE  Cardinality({j \in 1..n : j < i}) = i - 1
  <2>1. {j \in 1..n : j < i} = 1..(i - 1)
    OBVIOUS
  <2>. DEFINE top == i - 1
  <2>2. top \in Int /\ 1 \in Int /\ (IF 1 > top THEN 0 ELSE top - 1 + 1) = top
    OBVIOUS
  <2>. HIDE DEF top
  <2>3. Cardinality(1..top) = IF 1 > top THEN 0 ELSE top - 1 + 1
    BY <2>2, FS_Interval
  <2>. QED BY <2>1, <2>2, <2>3 DEF top
<1>2. \A i \in 1..n : Cardinality({j \in 1..n : j < i}) = k - 1 <=> i = k
  BY <1>1
<1>3. Nth(1..n, k) = CHOOSE i \in 1..n : i = k
  BY <1>2 DEF Nth
<1>4. Cardinality(1..n) = n
  BY FS_Interval
<1>. QED BY <1>3, <1>4

(* The response of a stream has the calls that were begun, in their order. *)
LEMMA StreamedParts ==
  ASSUME NEW b, NEW n \in Nat, DOMAIN b.calls = 1..n, NEW r, r = StreamedResponse(b)
  PROVE  /\ r.content = b.content /\ r.finish = b.finish
         /\ DOMAIN r.calls = 1..n /\ Len(r.calls) = n
         /\ \A i \in 1..n : r.calls[i] = StreamedCall(b.calls[i])
<1>. DEFINE calls == [i \in 1..Cardinality(1..n) |-> StreamedCall(b.calls[Nth(1..n, i)])]
<1>1. r = [content |-> b.content, calls |-> calls, finish |-> b.finish]
  BY DEF StreamedResponse
<1>2. Cardinality(1..n) = n
  BY FS_Interval
<1>3. DOMAIN calls = 1..n /\ \A i \in 1..n : calls[i] = StreamedCall(b.calls[i])
  BY <1>2, NthOfInterval
<1>4. Len(calls) = n
  BY <1>2
<1>. HIDE DEF calls
<1>. QED BY <1>1, <1>3, <1>4

(* The response to a whole answer. *)
LEMMA WholeParts ==
  ASSUME NEW t, NEW a, AnswerOK(a, t), NEW r, r = WholeResponse(a)
  PROVE  /\ r.content = a.content /\ r.finish = a.finish
         /\ DOMAIN r.calls = 1..Len(a.calls) /\ Len(r.calls) = Len(a.calls)
         /\ \A i \in 1..Len(a.calls) :
              LET raw == a.calls[i].raw
              IN  r.calls[i] = [name |-> a.calls[i].name, raw |-> raw,
                                args |-> IF Decodes(raw) THEN raw ELSE NoArgs, error |-> ~Decodes(raw)]
<1>. DEFINE calls == [i \in DOMAIN a.calls |->
                        LET raw == a.calls[i].raw
                        IN  [name |-> a.calls[i].name, raw |-> raw,
                             args |-> IF Decodes(raw) THEN raw ELSE NoArgs, error |-> ~Decodes(raw)]]
<1>1. r = [content |-> a.content, calls |-> calls, finish |-> a.finish]
  BY DEF WholeResponse
<1>2. Len(a.calls) \in Nat /\ DOMAIN a.calls = 1..Len(a.calls)
  BY AnswerParts
<1>3. /\ DOMAIN calls = 1..Len(a.calls) /\ Len(calls) = Len(a.calls)
      /\ \A i \in 1..Len(a.calls) :
           LET raw == a.calls[i].raw
           IN  calls[i] = [name |-> a.calls[i].name, raw |-> raw,
                           args |-> IF Decodes(raw) THEN raw ELSE NoArgs, error |-> ~Decodes(raw)]
  BY <1>2
<1>. HIDE DEF calls
<1>. QED BY <1>1, <1>3

(* The call waits for an answer or has one. *)
LEMMA AnswerKnown ==
  ASSUME CallInv
  PROVE  Waiting \/ HasAnswer
BY DEF CallInv, CallTypes, Stages

(* The user is shown one answer, that of the latest attempt, whatever the  *)
(* number of attempts and the way the answers arrive.                      *)
THEOREM ShownIsOneAnswerHolds == CallSpec => []ShownIsOneAnswer
<1>1. CallInv => ShownIsOneAnswer
  <2>. SUFFICES ASSUME CallInv PROVE ShownIsOneAnswer
    OBVIOUS
  <2>. DEFINE text == IF response = NoResponse THEN buffer.content ELSE response.content
  <2>1. ui.messages = MessagesOf(text) /\ text \in Texts(attempt)
    <3>1. CASE Waiting
      <4>1. ui.messages = MessagesOf(buffer.content) /\ response = NoResponse
        BY <3>1 DEF Waiting, UiShows
      <4>2. buffer.content \in Texts(attempt)
        BY DEF CallInv, CallTypes
      <4>. QED BY <4>1, <4>2
    <3>2. CASE HasAnswer
      <4>1. ui.messages = MessagesOf(response.content) /\ AnswerOK(answer, attempt)
        BY <3>2 DEF HasAnswer
      <4>2. buffer.content \in Texts(attempt) /\ streaming \in BOOLEAN
        BY DEF CallInv, CallTypes
      <4>3. response.content \in Texts(attempt)
        <5>1. streaming => response.content = buffer.content
          BY <3>2 DEF HasAnswer, StreamedResponse
        <5>2. ~streaming => response.content = answer.content
          BY <3>2 DEF HasAnswer, WholeResponse
        <5>3. answer.content \in Texts(attempt)
          BY <4>1, AnswerParts
        <5>. QED BY <4>2, <5>1, <5>2, <5>3
      <4>4. response = NoResponse => buffer.content = response.content
        <5>1. streaming => response.content = buffer.content
          BY <3>2 DEF HasAnswer, StreamedResponse
        <5>2. ~streaming => buffer.content = <<>>
          <6>1. EmptyBuffer.content = <<>>
            BY DEF EmptyBuffer
          <6>. QED BY <3>2, <6>1, Zenon DEF HasAnswer
        <5>3. response = NoResponse => response.content = <<>>
          BY DEF NoResponse
        <5>. QED BY <5>1, <5>2, <5>3
      <4>. QED BY <4>1, <4>3, <4>4
    <3>. QED BY <3>1, <3>2, AnswerKnown
  <2>. HIDE DEF text
  <2>2. OfThisAttempt(text)
    BY <2>1 DEF OfThisAttempt, Texts
  <2>3. phase = "asking" => buffer = EmptyBuffer
    BY DEF CallInv, CallTypes, Stages
  <2>. QED BY <2>1, <2>2, <2>3 DEF ShownIsOneAnswer, MessagesOf, text
<1>. QED BY <1>1, CallInvHolds, PTL

(* A repeated text is a text of the same attempt. *)
LEMMA RepeatedText ==
  ASSUME NEW t, NEW text \in Texts(t), NEW n \in Nat
  PROVE  Repeated(text, n) \in Texts(t) /\ Len(Repeated(text, n)) = n * Len(text)
<1>1. Len(text) \in Nat /\ n * Len(text) \in Nat /\ \A i \in 1..Len(text) : text[i] = t
  BY DEF Texts
<1>. DEFINE size == Len(text)
<1>2. ASSUME NEW i \in 1..(n * size)
      PROVE  text[((i - 1) % size) + 1] = t
  <2>0. size # 0
    <3>. HIDE DEF size
    <3>1. size = 0 => n * size = 0
      OBVIOUS
    <3>. QED BY <3>1
  <2>. HIDE DEF size
  <2>1. size \in Nat \ {0} /\ i - 1 \in Nat
    BY <1>1, <2>0 DEF size
  <2>2. (i - 1) % size \in 0..(size - 1)
    BY <2>1
  <2>3. ((i - 1) % size) + 1 \in 1..size
    BY <2>1, <2>2
  <2>. QED BY <1>1, <2>3 DEF size
<1>3. Repeated(text, n) = [i \in 1..(n * size) |-> t]
  BY <1>2 DEF Repeated
<1>. DEFINE total == n * size
<1>4. total \in Nat
  BY <1>1
<1>. HIDE DEF total
<1>5. [i \in 1..total |-> t] \in Texts(t) /\ Len([i \in 1..total |-> t]) = total
  BY <1>4 DEF Texts
<1>. QED BY <1>3, <1>5 DEF total

(* A stream that was not cut agrees with the same answer sent whole, for   *)
(* any answer and any chunks.                                              *)
THEOREM StreamAgreesHolds == CallSpec => []StreamAgrees
<1>1. CallInv => StreamAgrees
  <2>. SUFFICES ASSUME CallInv, streaming, indexed, response # NoResponse, left.ended
                PROVE  StreamAgrees
    BY DEF StreamAgrees
  <2>. DEFINE a == answer
              t == attempt
              l == left
              b == buffer
              n == Len(answer.calls)
              whole == WholeResponse(answer)
  <2>1. HasAnswer
    BY AnswerKnown DEF Waiting
  <2>2. /\ AnswerOK(a, t) /\ LeftOK(a, l, t) /\ Agrees(a, l, indexed, t, b)
        /\ response = StreamedResponse(b) /\ AllSent(a, l)
    BY <2>1 DEF HasAnswer, LeftOK
  <2>3. n \in Nat /\ a.content \in Texts(t) /\ Size(a) \in Nat
    BY <2>2, AnswerParts
  <2>4. DOMAIN b.calls = 1..n
    BY <2>2 DEF Agrees, CallsAgree, AllSent
  <2>5. /\ response.content = b.content /\ response.finish = b.finish
        /\ Len(response.calls) = n
        /\ \A i \in 1..n : response.calls[i] = StreamedCall(b.calls[i])
    BY <2>2, <2>3, <2>4, StreamedParts
  <2>6. /\ whole.content = a.content /\ whole.finish = a.finish
        /\ DOMAIN whole.calls = 1..n /\ Len(whole.calls) = n
        /\ \A i \in 1..n :
              LET raw == a.calls[i].raw
              IN  whole.calls[i] = [name |-> a.calls[i].name, raw |-> raw,
                                    args |-> IF Decodes(raw) THEN raw ELSE NoArgs, error |-> ~Decodes(raw)]
    BY <2>2, WholeParts
  <2>. HIDE DEF whole
  <2>7. response.finish = whole.finish
    BY <2>2, <2>5, <2>6 DEF Agrees
  <2>8. \/ response.content = whole.content
        \/ n > 1 /\ response.content = Repeated(whole.content, n)
    <3>1. b.content \in Texts(t)
      BY <2>2 DEF Agrees, BufferOK
    <3>2. TextLen(l) = 0
      BY <2>2, EmptyText, Zenon DEF AllSent, TextLen
    <3>3. Size(b) \in Nat
      BY <3>1, LongerText, Zenon DEF Size
    <3>4. CASE Size(b) + TextLen(l) = Size(a)
      <4>1. Size(b) = Size(a)
        BY <3>2, <3>3, <3>4
      <4>. QED BY <2>3, <2>5, <2>6, <3>1, <4>1, SameText DEF Size
    <3>5. CASE n > 1 /\ Size(b) = n * Size(a)
      <4>1. Repeated(a.content, n) \in Texts(t) /\ Len(Repeated(a.content, n)) = n * Size(a)
        BY <2>3, RepeatedText, Zenon DEF Size
      <4>2. b.content = Repeated(a.content, n)
        BY <3>1, <3>5, <4>1, SameText, Zenon DEF Size
      <4>. QED BY <2>5, <2>6, <3>5, <4>2
    <3>. QED BY <2>2, <3>4, <3>5 DEF Agrees, TextAgrees
  <2>9. ASSUME NEW i \in 1..n
        PROVE  \/ response.calls[i] = whole.calls[i]
               \/ /\ response.calls[i].raw = whole.calls[i].raw
                  /\ whole.calls[i].raw \in {<<>>, Value}
    <3>. DEFINE raw == a.calls[i].raw
    <3>1. b.calls[i].name = a.calls[i].name /\ b.calls[i].raw = raw
      <4>1. b.calls[i].name = a.calls[i].name /\ b.calls[i].raw \o l.raws[i] = raw /\ l.raws[i] = <<>>
        BY <2>2, <2>4 DEF Agrees, CallsAgree, AllSent
      <4>2. b.calls[i].raw \in Seq(STRING)
        BY <2>2, <2>4 DEF Agrees, BufferOK, Called
      <4>3. b.calls[i].raw \o <<>> = b.calls[i].raw
        BY <4>2
      <4>. QED BY <4>1, <4>3
    <3>. HIDE DEF raw
    <3>2. response.calls[i] = [name |-> a.calls[i].name, raw |-> raw,
                               args |-> IF IsObject(raw) THEN raw ELSE NoArgs,
                               error |-> raw # <<>> /\ ~IsObject(raw)]
      BY <2>5, <3>1, Zenon DEF StreamedCall
    <3>3. whole.calls[i] = [name |-> a.calls[i].name, raw |-> raw,
                            args |-> IF Decodes(raw) THEN raw ELSE NoArgs, error |-> ~Decodes(raw)]
      BY <2>6 DEF raw
    <3>4. CASE raw \in {<<>>, Value}
      BY <3>2, <3>3, <3>4
    <3>5. CASE raw \notin {<<>>, Value}
      <4>1. IsObject(raw) = Decodes(raw) /\ (raw # <<>> /\ ~IsObject(raw)) = ~Decodes(raw)
        BY <3>5 DEF IsObject, Decodes
      <4>. QED BY <3>2, <3>3, <4>1, Zenon
    <3>. QED BY <3>4, <3>5
  <2>. QED BY <2>5, <2>6, <2>7, <2>8, <2>9 DEF StreamAgrees, whole
<1>. QED BY <1>1, CallInvHolds, PTL

(* What the parser makes of a single call. *)
LEMMA ParsedSingle ==
  ASSUME NEW call, NEW text, NEW done, done = ParseCall(call, text)
  PROVE  /\ done.kind # "reply"
         /\ done.kind \in {"tool", "finish"} =>
              ~call.error /\ done.tool = call.name /\ done.args = call.args
<1>1. CASE call.error
  BY <1>1 DEF ParseCall, Refused, Action
<1>2. CASE ~call.error /\ call.name \notin Tools
  BY <1>2 DEF ParseCall, Invalid, Action
<1>3. CASE ~call.error /\ call.name \in Tools /\ call.args \notin {NoArgs, Whole, Lacking}
  <2>1. done = Crash
    BY <1>3, Zenon DEF ParseCall
  <2>. QED BY <2>1 DEF Crash, Action
<1>4. CASE ~call.error /\ call.name \in Demanding /\ call.args \in {NoArgs, Lacking}
  <2>1. call.name \in Tools
    BY <1>4, ToolsAssumption
  <2>2. done = Invalid
    BY <1>4, <2>1, Zenon DEF ParseCall
  <2>. QED BY <2>2 DEF Invalid, Action
<1>5. CASE ~(\/ call.error
             \/ ~call.error /\ call.name \notin Tools
             \/ ~call.error /\ call.name \in Tools /\ call.args \notin {NoArgs, Whole, Lacking}
             \/ ~call.error /\ call.name \in Demanding /\ call.args \in {NoArgs, Lacking})
  <2>. DEFINE kind == IF call.name = Finish THEN "finish" ELSE "tool"
  <2>1. done = Action(kind, call.name, call.args, text)
    BY <1>5, Zenon DEF ParseCall
  <2>2. kind # "reply" /\ ~call.error
    BY <1>5
  <2>. HIDE DEF kind
  <2>. QED BY <2>1, <2>2 DEF Action
<1>. QED BY <1>1, <1>2, <1>3, <1>4, <1>5, Zenon

(* What the parser makes of a response. *)
LEMMA Parsed ==
  ASSUME NEW r, Len(r.calls) \in Nat, Len(r.calls) = 0 => r.calls = <<>>
  PROVE  /\ Parse(r).kind = "reply" => r.calls = <<>> /\ r.finish = "stop" /\ Parse(r).text = r.content
         /\ Parse(r).kind \in {"tool", "finish"} =>
              /\ r.finish \notin Unsafe /\ Len(r.calls) = 1 /\ ~r.calls[1].error
              /\ Parse(r).tool = r.calls[1].name /\ Parse(r).args = r.calls[1].args
<1>. DEFINE size == Len(r.calls)
<1>0. size \in Nat /\ (r.calls = <<>> <=> size = 0)
  BY EmptyText
<1>. HIDE DEF size
<1>1. CASE r.finish \in Unsafe
  <2>1. Parse(r) = Refused
    BY <1>1, Zenon DEF Parse
  <2>. QED BY <2>1 DEF Refused, Action
<1>2. CASE r.finish \notin Unsafe /\ size > 1
  <2>1. ~(size = 1) /\ ~(r.calls = <<>>)
    BY <1>0, <1>2
  <2>2. Parse(r) = Refused
    BY <1>2, <2>1, Zenon DEF Parse, size
  <2>. QED BY <2>2 DEF Refused, Action
<1>3. CASE r.finish \notin Unsafe /\ size = 1
  <2>1. ~(size > 1) /\ ~(r.calls = <<>>)
    BY <1>0, <1>3
  <2>2. Parse(r) = ParseCall(r.calls[1], r.content)
    BY <1>3, <2>1, Zenon DEF Parse, size
  <2>3. /\ Parse(r).kind # "reply"
        /\ Parse(r).kind \in {"tool", "finish"} =>
             /\ ~r.calls[1].error
             /\ Parse(r).tool = r.calls[1].name /\ Parse(r).args = r.calls[1].args
    BY <2>2, ParsedSingle
  <2>. QED BY <1>3, <2>3, Zenon DEF size
<1>4. CASE r.finish \notin Unsafe /\ size = 0
  <2>1. ~(size > 1) /\ ~(size = 1) /\ r.calls = <<>>
    BY <1>0, <1>4
  <2>2. Parse(r) = IF r.content = <<>> THEN Invalid
                   ELSE IF r.finish = "stop" THEN Action("reply", NoName, NoArgs, r.content) ELSE Refused
    BY <1>4, <2>1, Zenon DEF Parse, size
  <2>3. Invalid.kind = "invalid" /\ Refused.kind = "refused"
    BY DEF Invalid, Refused, Action
  <2>. QED BY <2>1, <2>2, <2>3 DEF Action
<1>5. size > 1 \/ size = 1 \/ size = 0
  BY <1>0
<1>. QED BY <1>1, <1>2, <1>3, <1>4, <1>5, Zenon

(* No arguments but the whole ones are a JSON object. *)
LEMMA WholeArguments ==
  ASSUME NEW t, NEW a, AnswerOK(a, t), NEW i \in 1..Len(a.calls), NEW raw \in Seq(STRING),
         NEW more \in Seq(STRING), raw \o more = a.calls[i].raw, IsObject(raw)
  PROVE  raw = a.calls[i].raw
<1>. DEFINE all == a.calls[i].raw
<1>1. Len(raw) \in Nat /\ Len(more) \in Nat /\ Len(raw \o more) = Len(raw) + Len(more)
  BY ConcatProperties, LenProperties
<1>2. raw = SubSeq(raw \o more, 1, Len(raw))
  OBVIOUS
<1>3. i \in DOMAIN a.calls /\ \A k \in 0..Len(all) : IsObject(SubSeq(all, 1, k)) => k = Len(all)
  <2>1. i \in DOMAIN a.calls
    BY AnswerParts
  <2>. QED BY <2>1 DEF AnswerOK
<1>. HIDE DEF all
<1>4. raw \o more = all
  BY DEF all
<1>5. Len(raw) \in 0..Len(all)
  BY <1>1, <1>4
<1>6. Len(raw) = Len(all)
  BY <1>2, <1>3, <1>4, <1>5
<1>7. Len(more) = 0
  <2>. HIDE DEF all
  <2>. QED BY <1>1, <1>4, <1>6
<1>8. more = <<>>
  BY <1>7
<1>9. raw \o <<>> = raw
  OBVIOUS
<1>. QED BY <1>4, <1>8, <1>9 DEF all

(* What is done with a whole answer. *)
LEMMA WholeActedOn ==
  ASSUME CallInv, phase = "acted", ~streaming
  PROVE  ActedOnWhole
<1>. DEFINE a == answer
            r == response
            n == Len(answer.calls)
<1>1. HasAnswer /\ action = Parse(r)
  BY DEF CallInv, Stages
<1>2. AnswerOK(a, attempt) /\ r = WholeResponse(a)
  BY <1>1 DEF HasAnswer
<1>3. n \in Nat /\ a.calls \in Seq(Called)
  BY <1>2, AnswerParts
<1>4. /\ r.content = a.content /\ r.finish = a.finish /\ Len(r.calls) = n /\ DOMAIN r.calls = 1..n
      /\ \A i \in 1..n :
           LET raw == a.calls[i].raw
           IN  r.calls[i] = [name |-> a.calls[i].name, raw |-> raw,
                             args |-> IF Decodes(raw) THEN raw ELSE NoArgs, error |-> ~Decodes(raw)]
  BY <1>2, WholeParts
<1>5. n = 0 => r.calls = <<>> /\ a.calls = <<>>
  <2>1. n = 0 => a.calls = <<>>
    BY <1>3, EmptySeq
  <2>2. a.calls = <<>> => r.calls = <<>>
    BY <1>2 DEF WholeResponse
  <2>. QED BY <2>1, <2>2
<1>6. /\ action.kind = "reply" => r.calls = <<>> /\ r.finish = "stop" /\ action.text = r.content
      /\ action.kind \in {"tool", "finish"} =>
           /\ r.finish \notin Unsafe /\ n = 1 /\ ~r.calls[1].error
           /\ action.tool = r.calls[1].name /\ action.args = r.calls[1].args
  <2>1. Len(r.calls) \in Nat /\ (Len(r.calls) = 0 => r.calls = <<>>)
    BY <1>3, <1>4, <1>5
  <2>. HIDE DEF r
  <2>. QED BY <1>1, <1>4, <2>1, Parsed
<1>7. ASSUME action.kind = "reply"
      PROVE  action.text = a.content /\ a.calls = <<>>
  <2>1. r.calls = <<>> /\ action.text = r.content
    BY <1>6, <1>7
  <2>2. n = 0
    BY <1>4, <2>1, EmptyText
  <2>. QED BY <1>4, <1>5, <2>1, <2>2
<1>8. ASSUME action.kind \in {"tool", "finish"}
      PROVE  /\ a.calls # <<>> /\ action.tool = a.calls[1].name /\ action.args = a.calls[1].raw
             /\ ~(n > 1) /\ a.finish \notin Unsafe
  <2>1. /\ r.finish \notin Unsafe /\ n = 1 /\ ~r.calls[1].error
        /\ action.tool = r.calls[1].name /\ action.args = r.calls[1].args
    BY <1>6, <1>8
  <2>2. /\ r.calls[1].name = a.calls[1].name
        /\ r.calls[1].error = ~Decodes(a.calls[1].raw)
        /\ r.calls[1].args = IF Decodes(a.calls[1].raw) THEN a.calls[1].raw ELSE NoArgs
    BY <1>4, <2>1
  <2>3. a.calls # <<>>
    BY <2>1, EmptyText
  <2>4. Decodes(a.calls[1].raw)
    BY <2>1, <2>2, Zenon
  <2>5. action.tool = a.calls[1].name /\ action.args = a.calls[1].raw
    BY <2>1, <2>2, <2>4, Zenon
  <2>6. ~(n > 1) /\ a.finish \notin Unsafe
    BY <1>4, <2>1
  <2>. QED BY <2>3, <2>5, <2>6
<1>. QED BY <1>7, <1>8 DEF ActedOnWhole

(* What is done with a streamed answer. *)
LEMMA StreamActedOn ==
  ASSUME CallInv, phase = "acted", streaming
  PROVE  ActedOnWhole
<1>. DEFINE a == answer
            l == left
            t == attempt
            b == buffer
            r == response
            n == Len(answer.calls)
            begun == IF indexed THEN left.begun ELSE 0
<1>1. HasAnswer /\ action = Parse(r) /\ indexed \in BOOLEAN
  BY DEF CallInv, Stages, CallTypes
<1>2. /\ AnswerOK(a, t) /\ LeftOK(a, l, t) /\ Agrees(a, l, indexed, t, b)
      /\ r = StreamedResponse(b)
  BY <1>1 DEF HasAnswer
<1>3. /\ n \in Nat /\ a.calls \in Seq(Called) /\ a.content \in Texts(t) /\ Size(a) \in Nat
      /\ \A i \in 1..n : a.calls[i].raw \in Seq(STRING)
  BY <1>2, AnswerParts
<1>4. l \in LeftTypes(a, t) /\ (l.ended => AllSent(a, l))
  BY <1>2 DEF LeftOK
<1>5. /\ l.begun \in 0..n /\ begun \in 0..n /\ l.raws \in [1..n -> Seq(STRING)] /\ l.ended \in BOOLEAN
      /\ l.text \in Texts(t)
  BY <1>1, <1>3, <1>4 DEF LeftTypes
<1>6. /\ BufferOK(b, t) /\ TextAgrees(a, l, indexed, b)
      /\ DOMAIN b.calls = 1..begun
      /\ \A i \in 1..begun : b.calls[i].name = a.calls[i].name
                             /\ b.calls[i].raw \o l.raws[i] = a.calls[i].raw
      /\ b.finish = IF l.ended THEN a.finish ELSE ""
  <2>1. BufferOK(b, t) /\ TextAgrees(a, l, indexed, b) /\ b.finish = IF l.ended THEN a.finish ELSE ""
    BY <1>2 DEF Agrees
  <2>2. /\ DOMAIN b.calls = IF indexed THEN 1..l.begun ELSE {}
        /\ \A i \in DOMAIN b.calls : b.calls[i].name = a.calls[i].name
                                     /\ b.calls[i].raw \o l.raws[i] = a.calls[i].raw
    BY <1>2 DEF Agrees, CallsAgree
  <2>3. (1..0) = {}
    OBVIOUS
  <2>4. DOMAIN b.calls = 1..begun
    BY <1>1, <2>2, <2>3, Zenon
  <2>. HIDE DEF begun
  <2>. QED BY <2>1, <2>2, <2>4, Zenon
<1>. HIDE DEF begun
<1>7. /\ r.content = b.content /\ r.finish = b.finish /\ DOMAIN r.calls = 1..begun
      /\ Len(r.calls) = begun
      /\ \A i \in 1..begun : r.calls[i] = StreamedCall(b.calls[i])
  <2>1. begun \in Nat
    BY <1>5
  <2>. HIDE DEF b, r
  <2>. QED BY <1>2, <1>6, <2>1, StreamedParts
<1>8. begun = 0 => r.calls = <<>>
  <2>1. Cardinality(1..0) = 0
    BY FS_Interval
  <2>2. begun = 0 => DOMAIN b.calls = 1..0
    BY <1>6
  <2>. DEFINE call(i) == StreamedCall(b.calls[Nth(DOMAIN b.calls, i)])
  <2>3. r.calls = [i \in 1..Cardinality(DOMAIN b.calls) |-> call(i)]
    BY <1>2 DEF StreamedResponse
  <2>. HIDE DEF call, r, b
  <2>4. [i \in 1..0 |-> call(i)] = <<>>
    OBVIOUS
  <2>. QED BY <2>1, <2>2, <2>3, <2>4, Zenon
<1>9. /\ action.kind = "reply" => r.calls = <<>> /\ r.finish = "stop" /\ action.text = r.content
      /\ action.kind \in {"tool", "finish"} =>
           /\ r.finish \notin Unsafe /\ begun = 1 /\ ~r.calls[1].error
           /\ action.tool = r.calls[1].name /\ action.args = r.calls[1].args
  <2>1. Len(r.calls) \in Nat /\ (Len(r.calls) = 0 => r.calls = <<>>)
    BY <1>5, <1>7, <1>8
  <2>. HIDE DEF r
  <2>. QED BY <1>1, <1>7, <2>1, Parsed
<1>10. l.ended => l.begun = n /\ TextLen(l) = 0 /\ \A i \in 1..n : l.raws[i] = <<>>
  <2>1. l.ended => l.text = <<>>
    BY <1>4 DEF AllSent
  <2>2. l.text = <<>> => TextLen(l) = 0
    BY EmptyText, Zenon DEF TextLen
  <2>. QED BY <1>4, <2>1, <2>2 DEF AllSent
<1>11. ASSUME action.kind = "reply"
       PROVE  action.text = a.content /\ (a.calls = <<>> \/ ~indexed)
  <2>1. r.calls = <<>> /\ r.finish = "stop" /\ action.text = b.content
    BY <1>7, <1>9, <1>11
  <2>2. begun = 0
    BY <1>7, <2>1, EmptyText
  <2>3. l.ended
    BY <1>6, <1>7, <2>1
  <2>4. a.calls = <<>> \/ ~indexed
    <3>1. indexed => n = 0
      BY <1>10, <2>2, <2>3 DEF begun
    <3>2. n = 0 => a.calls = <<>>
      BY <1>3, EmptySeq
    <3>. QED BY <3>1, <3>2
  <2>5. Size(b) + TextLen(l) = Size(a)
    <3>1. ~(indexed /\ n > 1)
      BY <1>5, <1>10, <2>2, <2>3 DEF begun
    <3>. QED BY <1>6, <3>1 DEF TextAgrees
  <2>6. b.content \in Texts(t)
    BY <1>6 DEF BufferOK
  <2>7. Size(b) \in Nat
    BY <2>6, LongerText, Zenon DEF Size
  <2>8. Size(b) = Size(a)
    BY <1>10, <2>3, <2>5, <2>7
  <2>9. b.content = a.content
    BY <1>3, <2>6, <2>8, SameText DEF Size
  <2>. QED BY <2>1, <2>4, <2>9
<1>12. ASSUME action.kind \in {"tool", "finish"}
       PROVE  /\ a.calls # <<>> /\ action.tool = a.calls[1].name
              /\ \/ action.args = a.calls[1].raw
                 \/ Cut /\ r.calls[1].raw = <<>>
              /\ n > 1 => Cut
              /\ a.finish \in Unsafe => Cut
  <2>1. /\ r.finish \notin Unsafe /\ begun = 1 /\ ~r.calls[1].error
        /\ action.tool = r.calls[1].name /\ action.args = r.calls[1].args
    BY <1>9, <1>12
  <2>2. 1 \in 1..begun /\ 1 \in 1..n /\ l.begun = 1
    BY <1>3, <1>5, <2>1 DEF begun
  <2>. DEFINE raw == b.calls[1].raw
              all == a.calls[1].raw
              rest == l.raws[1]
  <2>3. /\ r.calls[1].name = b.calls[1].name /\ r.calls[1].raw = raw
        /\ r.calls[1].args = IF IsObject(raw) THEN raw ELSE NoArgs
        /\ r.calls[1].error = (raw # <<>> /\ ~IsObject(raw))
    <3>1. r.calls[1] = StreamedCall(b.calls[1])
      BY <1>7, <2>2
    <3>. DEFINE args  == IF IsObject(raw) THEN raw ELSE NoArgs
                error == raw # <<>> /\ ~IsObject(raw)
    <3>2. r.calls[1] = [name |-> b.calls[1].name, raw |-> raw, args |-> args, error |-> error]
      BY <3>1, Zenon DEF StreamedCall
    <3>. HIDE DEF r, raw, args, error
    <3>3. /\ r.calls[1].name = b.calls[1].name /\ r.calls[1].raw = raw
          /\ r.calls[1].args = args /\ r.calls[1].error = error
      BY <3>2
    <3>. QED BY <3>3, Zenon DEF args, error
  <2>4. b.calls[1].name = a.calls[1].name /\ raw \o rest = all
    BY <1>6, <2>2
  <2>5. raw \in Seq(STRING) /\ rest \in Seq(STRING)
    <3>1. b.calls[1] \in Called
      BY <1>6, <2>2 DEF BufferOK
    <3>. QED BY <1>5, <2>2, <3>1 DEF Called
  <2>. HIDE DEF raw, all, rest
  <2>6. IsObject(raw) => raw = all
    <3>. HIDE DEF a, t
    <3>. QED BY <1>2, <2>2, <2>4, <2>5, WholeArguments DEF all, a
  <2>7. Cut <=> ~l.ended
    BY DEF Cut
  <2>8. action.args = all \/ (Cut /\ raw = <<>>)
    <3>1. CASE IsObject(raw)
      BY <2>1, <2>3, <2>6, <3>1, Zenon
    <3>2. CASE ~IsObject(raw)
      <4>1. raw = <<>> /\ action.args = <<>>
        BY <2>1, <2>3, <3>2, Zenon DEF NoArgs
      <4>2. ~Cut => rest = <<>>
        BY <1>10, <2>2, <2>7 DEF rest
      <4>3. <<>> \o <<>> = <<>>
        OBVIOUS
      <4>. QED BY <2>4, <4>1, <4>2, <4>3
    <3>. QED BY <3>1, <3>2
  <2>9. n > 1 => Cut
    BY <1>5, <1>10, <2>2, <2>7
  <2>10. a.finish \in Unsafe => Cut
    BY <1>6, <1>7, <2>1, <2>7
  <2>11. a.calls # <<>>
    BY <2>2, EmptyText
  <2>. QED BY <2>1, <2>3, <2>4, <2>8, <2>9, <2>10, <2>11 DEF raw, all
<1>. QED BY <1>11, <1>12 DEF ActedOnWhole

(* What is done is what the model asked for, whatever it answers and       *)
(* wherever the stream ends.                                               *)
THEOREM ActedOnWholeHolds == CallSpec => []ActedOnWhole
<1>1. CallInv => ActedOnWhole
  <2>1. CallInv => streaming \in BOOLEAN
    BY DEF CallInv, CallTypes
  <2>2. phase # "acted" => ActedOnWhole
    BY DEF ActedOnWhole
  <2>. QED BY <2>1, <2>2, WholeActedOn, StreamActedOn
<1>. QED BY <1>1, CallInvHolds, PTL

=============================================================================
