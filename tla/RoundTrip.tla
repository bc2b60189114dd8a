------------------------------ MODULE RoundTrip ------------------------------
(***************************************************************************)
(* What the resolver does with the messages it passes on: a packet is      *)
(* decoded, encoded again (internal/server/handler.go and the snapshot of  *)
(* the cache do) and decoded by whoever receives it.                       *)
(***************************************************************************)
EXTENDS Decoder, Encoder

CONSTANT Messages  \* what the server composes itself

(* The fields of data that are read, and which item each of them becomes;  *)
(* the other fields only look at the length.                               *)
Reading(fields) == {p \in DOMAIN fields : fields[p].op \notin {"need", "exactly"}}
ItemOf(fields, p) == Cardinality({q \in Reading(fields) : q <= p})

FitsField(fields, p, item) ==
    /\ item.op = fields[p].op
    /\ item.op = "numbers" => Len(item.value) = fields[p].n
    /\ p > 1 /\ fields[p - 1].op = "exactly" => Len(item.value) = fields[p - 1].n

(* The data has the form of its type, as the Go types of the data have.    *)
Fits(type, data) ==
    LET fields == RDataFields(type) IN
    IF type = TypeTXT THEN \A i \in DOMAIN data : data[i].op = "counted"
    ELSE /\ Len(data) = Cardinality(Reading(fields))
         /\ \A p \in Reading(fields) : FitsField(fields, p, data[ItemOf(fields, p)])

WellFormed(message) == \A i \in DOMAIN message.records :
    message.records[i].parsed => Fits(message.records[i].type, message.records[i].data)

ASSUME MessagesAssumption == Messages \subseteq Message /\ \A m \in Messages : WellFormed(m)

VARIABLE trip  \* "arrives" or "composed" until the message is sent on, then "encode", then "again"

allVars == <<vars, encoderVars, trip>>

(* A packet arrives, or a message is composed.                             *)
TripInit ==
    /\ EncoderInit
    /\ \/ Init /\ trip = "arrives"
       \/ /\ trip = "composed"
          /\ msg \in Messages
          /\ pc = "done" /\ packet = <<>> /\ off = 0 /\ left = [questions |-> 0, records |-> 0]
          /\ nm = NoName /\ rr = NoRecord

DecodeStep == Next /\ UNCHANGED <<encoderVars, trip>>

SendOn ==
    /\ pc = "done" /\ trip \in {"arrives", "composed"}
    /\ trip' = "encode"
    /\ StartEncode(msg)
    /\ UNCHANGED vars

EncodeStep == EncoderNext /\ UNCHANGED <<vars, trip>>

(* The receiver decodes the packet from the start.                         *)
Receive ==
    /\ epc = "encoded" /\ trip = "encode"
    /\ trip' = "again"
    /\ packet' = w.buf
    /\ pc' = "start"
    /\ off' = 0
    /\ left' = [questions |-> 0, records |-> 0]
    /\ nm' = NoName
    /\ rr' = NoRecord
    /\ msg' = NothingRead
    /\ UNCHANGED encoderVars

TripNext == DecodeStep \/ SendOn \/ EncodeStep \/ Receive

(* A call of Decode goes on as long as it can.                             *)
TripSpec == TripInit /\ [][TripNext]_allVars /\ WF_allVars(DecodeStep)
-----------------------------------------------------------------------------
(* A name with the dot it ends in; the empty text is the root.             *)
Qualified(text) == IF text # <<>> /\ text[Len(text)] = Dot THEN text ELSE Append(text, Dot)

(* The encoder drops blanks at the ends of a name, wherever it comes from. *)
BlankEnds(text) == TrimSpace(text) # text

SameName(old, got) == BlankEnds(old) \/ FoldCase(Qualified(old)) = FoldCase(got)

SameItem(old, got) ==
    old.op = got.op /\ IF old.op = "name" THEN SameName(old.value, got.value) ELSE old.value = got.value

SameData(old, got) ==
    IF old.parsed
    THEN got.parsed /\ Len(old.data) = Len(got.data) /\ \A i \in DOMAIN old.data : SameItem(old.data[i], got.data[i])
    ELSE old.raw = got.raw

SameMessage(old, got) ==
    /\ Len(old.questions) = Len(got.questions) /\ Len(old.records) = Len(got.records)
    /\ \A i \in DOMAIN old.questions :
          /\ old.questions[i].type = got.questions[i].type
          /\ SameName(old.questions[i].name, got.questions[i].name)
    /\ \A i \in DOMAIN old.records :
          /\ old.records[i].type = got.records[i].type
          /\ SameName(old.records[i].name, got.records[i].name)
          /\ SameData(old.records[i], got.records[i])

(* All names of a message, of its data too, are ASCII.                     *)
AsciiNames(message) ==
    /\ \A i \in DOMAIN message.questions : IsAscii(message.questions[i].name)
    /\ \A i \in DOMAIN message.records :
          /\ IsAscii(message.records[i].name)
          /\ \A j \in DOMAIN message.records[i].data :
                message.records[i].data[j].op = "name" => IsAscii(message.records[i].data[j].value)

(* What was encoded decodes, and to the same message: the same names in    *)
(* another case at most, except those with blanks at their ends, and the   *)
(* same data wherever it was understood.  Compression, lengths and         *)
(* positions of a message that was laid out otherwise must all agree for   *)
(* that (SPEC.md:855 asks for the round trip of single records).  It is    *)
(* not true of names beyond ASCII: the map of suffixes takes different     *)
(* ones for the same.                                                      *)
RoundTripKeeps ==
    trip = "again" /\ AsciiNames(sent) => pc # "error" /\ (pc = "done" => SameMessage(sent, msg))

(* The first question of a message arrives octet by octet as it is in the  *)
(* message, its case and octets beyond ASCII included, unless blanks are   *)
(* at its ends: nothing is written before it that writeName could compress *)
(* it against.  (Which question the message has is up to HandlePacket,     *)
(* which sends the one that came from upstream.)                           *)
QuestionIsEchoed ==
    trip = "again" /\ pc = "done" /\ sent.questions # <<>> /\ ~BlankEnds(sent.questions[1].name) =>
        msg.questions[1].name = Qualified(sent.questions[1].name)
=============================================================================
