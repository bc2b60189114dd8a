------------------------------- MODULE Encoder -------------------------------
(***************************************************************************)
(* Encode of internal/protocol as a machine over one message: a question,  *)
(* the head of a record, a field of its data or its length is one step.    *)
(***************************************************************************)
EXTENDS Wire

VARIABLES
    epc,    \* "idle", "question", "record", "field", "encoded" or "unencodable"
    sent,   \* the message
    todo,   \* the questions and records not written yet, and the items of the record at hand
    lenPos, \* where the length of the record at hand goes
    w       \* the writer

encoderVars == <<epc, sent, todo, lenPos, w>>

NoMessage == [questions |-> <<>>, records |-> <<>>]
NothingToDo == [questions |-> <<>>, records |-> <<>>, items |-> <<>>]

EncoderInit ==
    /\ epc = "idle"
    /\ sent = NoMessage
    /\ todo = NothingToDo
    /\ lenPos = 0
    /\ w = NewWriter

(* The counts written are those of the sections.                           *)
NormalizeCounts(message) == <<Len(message.questions), Len(message.records)>>

(* Encode is called.                                                       *)
StartEncode(message) ==
    /\ epc = "idle"
    /\ epc' = "question"
    /\ sent' = message
    /\ todo' = [NothingToDo EXCEPT !.questions = message.questions, !.records = message.records]
    /\ w' = Put(NewWriter, NormalizeCounts(message))
    /\ UNCHANGED lenPos

(* The writer after a step; the first step that fails is the last.         *)
Write(next, after) ==
    /\ w' = next
    /\ epc' = IF next.ok THEN after ELSE "unencodable"
    /\ UNCHANGED sent

EncodeQuestion ==
    /\ epc = "question" /\ todo.questions # <<>>
    /\ LET q == Head(todo.questions) IN Write(Put(WriteName(w, q.name), <<q.type>>), "question")
    /\ todo' = [todo EXCEPT !.questions = Tail(@)]
    /\ UNCHANGED lenPos

EndQuestions ==
    /\ epc = "question" /\ todo.questions = <<>>
    /\ Write(w, "record")
    /\ UNCHANGED <<todo, lenPos>>

(* encodeResourceRecord: the length is written as 0 and set when the data  *)
(* is there.  A record that was not understood is written as it was.       *)
EncodeResourceRecord ==
    /\ epc = "record" /\ todo.records # <<>>
    /\ LET r == Head(todo.records) IN
       /\ Write(Put(WriteName(w, r.name), <<r.type, 0>>), "field")
       /\ todo' = [todo EXCEPT !.records = Tail(@),
                       !.items = IF r.parsed THEN r.data ELSE <<[op |-> "rest", value |-> r.raw]>>]
    /\ lenPos' = Len(w'.buf)

EncodeRData ==
    /\ epc = "field" /\ todo.items # <<>>
    /\ Write(WriteItem(w, Head(todo.items)), "field")
    /\ todo' = [todo EXCEPT !.items = Tail(@)]
    /\ UNCHANGED lenPos

SetLength ==
    /\ epc = "field" /\ todo.items = <<>>
    /\ Write([w EXCEPT !.buf[lenPos] = Len(w.buf) - lenPos], "record")
    /\ UNCHANGED <<todo, lenPos>>

EndEncode ==
    /\ epc = "record" /\ todo.records = <<>>
    /\ Write([w EXCEPT !.ok = Len(w.buf) <= MaxPacketLen], "encoded")
    /\ UNCHANGED <<todo, lenPos>>

EncoderNext ==
    \/ EncodeQuestion \/ EndQuestions \/ EncodeResourceRecord
    \/ EncodeRData \/ SetLength \/ EndEncode
=============================================================================
