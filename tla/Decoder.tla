------------------------------- MODULE Decoder -------------------------------
(***************************************************************************)
(* Decode of internal/protocol as a machine over one packet: a turn of the *)
(* loops over questions and records, of decodeName's loop over labels, or  *)
(* of parseRData over the fields of a record is one step.                  *)
(*                                                                         *)
(* An index or a slice outside its bounds ends a Go program: a step that   *)
(* takes cells without having looked whether they are there has the        *)
(* outcome "panic".                                                        *)
(***************************************************************************)
EXTENDS Wire

CONSTANT Packets  \* what may arrive

ASSUME PacketsAssumption == Packets \subseteq Seq(Nat)

VARIABLES
    packet,  \* the packet
    pc,      \* where Decode is, or how it ended
    off,     \* offset of the next question or record
    left,    \* questions and records still to be read
    nm,      \* decodeName: who called it, and its local variables
    rr,      \* the record at hand: rdStart, rdEnd, the position and the fields left
    msg      \* what has been decoded

vars == <<packet, pc, off, left, nm, rr, msg>>

NoName == [user |-> "question", curr |-> 0, next |-> -1, labels |-> <<>>, visited |-> {}, jumps |-> 0]
NoRecord == [name |-> <<>>, type |-> 0, start |-> 0, end |-> 0, cur |-> 0, fields |-> <<>>, data |-> <<>>]
NothingRead == [questions |-> <<>>, records |-> <<>>]

Ended == {"done", "error", "panic"}

Init ==
    /\ packet \in Packets
    /\ pc = "start"
    /\ off = 0
    /\ left = [questions |-> 0, records |-> 0]
    /\ nm = NoName
    /\ rr = NoRecord
    /\ msg = NothingRead

Size == Len(packet)
At(offset) == packet[offset + 1]
Cells(from, to) == SubSeq(packet, from + 1, to)

Goto(where) == pc' = where
-----------------------------------------------------------------------------
(* The counts of the header.                                               *)
HeaderCounts == [questions |-> At(0), records |-> At(1)]

DecodeHeader ==
    /\ pc = "start"
    /\ \/ /\ Size < HeaderSize \/ Size > MaxPacketLen
          /\ Goto("error")
          /\ UNCHANGED <<off, left>>
       \/ /\ Size >= HeaderSize /\ Size <= MaxPacketLen
          /\ left' = HeaderCounts
          /\ off' = HeaderSize
          /\ Goto("section")
    /\ UNCHANGED <<packet, nm, rr, msg>>

(* decodeName is called by user for the name at an offset.                 *)
CallName(user, at) ==
    /\ nm' = [NoName EXCEPT !.user = user, !.curr = at]
    /\ Goto(IF at < Size THEN "name" ELSE "badname")

NextQuestion ==
    /\ pc = "section" /\ left.questions > 0
    /\ left' = [left EXCEPT !.questions = @ - 1]
    /\ CallName("question", off)
    /\ UNCHANGED <<packet, off, rr, msg>>

NextRecord ==
    /\ pc = "section" /\ left.questions = 0 /\ left.records > 0
    /\ left' = [left EXCEPT !.records = @ - 1]
    /\ CallName("record", off)
    /\ UNCHANGED <<packet, off, rr, msg>>

Finish ==
    /\ pc = "section" /\ left.questions = 0 /\ left.records = 0
    /\ Goto(IF off > Size THEN "error" ELSE "done")
    /\ UNCHANGED <<packet, off, left, nm, rr, msg>>
-----------------------------------------------------------------------------
(* decodeName.  The two highest bits of the octet at curr tell a pointer   *)
(* from a label; other values are neither.                                 *)
Octet == At(nm.curr)
PointerTarget == (Octet % 64) * 256 + At(nm.curr + 1)

GoodPointer ==
    /\ Octet \div 64 = 3
    /\ nm.curr + 1 < Size
    /\ PointerTarget < Size
    /\ PointerTarget \notin nm.visited
    /\ nm.jumps < MaxLabels

GoodLabel ==
    /\ Octet \in 1 .. MaxLabelLength
    /\ nm.curr + 1 + Octet <= Size
    /\ Len(nm.labels) < MaxLabels

GoodEnd == Octet = 0 /\ (nm.labels = <<>> \/ TextLength(nm.labels) <= MaxNameLength)

(* Where the caller goes on: after the first pointer, or after the name.   *)
NextAfter(width) == IF nm.next = -1 THEN nm.curr + width ELSE nm.next

(* What was visited, and how often, is looked at but never written down.   *)
Jumped_Uncounted == [nm EXCEPT !.next = NextAfter(2), !.curr = PointerTarget]

Jumped ==
    [nm EXCEPT !.visited = @ \cup {PointerTarget}, !.next = NextAfter(2), !.curr = PointerTarget, !.jumps = @ + 1]

FollowPointer ==
    /\ pc = "name" /\ nm.curr < Size /\ GoodPointer
    /\ nm' = Jumped
    /\ UNCHANGED <<packet, pc, off, left, rr, msg>>

ReadLabel ==
    /\ pc = "name" /\ nm.curr < Size /\ GoodLabel
    /\ nm' = [nm EXCEPT !.labels = Append(@, Cells(nm.curr + 1, nm.curr + 1 + Octet)), !.curr = @ + 1 + Octet]
    /\ UNCHANGED <<packet, pc, off, left, rr, msg>>

(* The root: the name is whole, unless its text is too long.               *)
NameEnds ==
    /\ pc = "name" /\ nm.curr < Size /\ GoodEnd
    /\ nm' = [nm EXCEPT !.next = NextAfter(1)]
    /\ Goto("named")
    /\ UNCHANGED <<packet, off, left, rr, msg>>

NameFails ==
    /\ pc = "name"
    /\ ~(nm.curr < Size /\ (GoodPointer \/ GoodLabel \/ GoodEnd))
    /\ Goto("badname")
    /\ UNCHANGED <<packet, off, left, nm, rr, msg>>
-----------------------------------------------------------------------------
(* decodeQuestion after the name.                                          *)
EndQuestion ==
    /\ pc = "named" /\ nm.user = "question"
    /\ \/ /\ nm.next + QuestionFixed > Size
          /\ Goto("error")
          /\ UNCHANGED <<off, msg>>
       \/ /\ nm.next + QuestionFixed <= Size
          /\ msg' = [msg EXCEPT !.questions = Append(@, [name |-> Join(nm.labels), type |-> At(nm.next)])]
          /\ off' = nm.next + QuestionFixed
          /\ Goto("section")
    /\ UNCHANGED <<packet, left, nm, rr>>

(* decodeResourceRecord after the name: the data must lie in the packet.   *)
StartRecord ==
    /\ pc = "named" /\ nm.user = "record"
    /\ LET start == nm.next + RecordFixed IN
       \/ /\ start > Size
          /\ Goto("error")
          /\ UNCHANGED rr
       \/ /\ start <= Size
          /\ start + At(nm.next + 1) > Size
          /\ Goto("error")
          /\ UNCHANGED rr
       \/ /\ start <= Size
          /\ start + At(nm.next + 1) <= Size
          /\ rr' = [name |-> Join(nm.labels), type |-> At(nm.next), start |-> start,
                    end |-> start + At(nm.next + 1), cur |-> start,
                    fields |-> RDataFields(At(nm.next)), data |-> <<>>]
          /\ Goto("field")
    /\ UNCHANGED <<packet, off, left, nm, msg>>

(* The record is added, with its data or without, and the next one starts  *)
(* where the length says.                                                  *)
EndRecord(parsed) ==
    /\ msg' = [msg EXCEPT !.records = Append(@,
                  [name |-> rr.name, type |-> rr.type, raw |-> Cells(rr.start, rr.end),
                   parsed |-> parsed, data |-> IF parsed THEN rr.data ELSE <<>>])]
    /\ off' = rr.end
    /\ Goto("section")
    /\ UNCHANGED <<packet, left, nm, rr>>

(* A name that is none: an error of Decode, or data not understood.        *)
BadName ==
    /\ pc = "badname"
    /\ \/ /\ nm.user # "rdata"
          /\ Goto("error")
          /\ UNCHANGED <<packet, off, left, nm, rr, msg>>
       \/ nm.user = "rdata" /\ EndRecord(FALSE)
-----------------------------------------------------------------------------
(* parseRData, field by field.                                             *)
Field == Head(rr.fields)
AtField(op) == pc = "field" /\ rr.fields # <<>> /\ Field.op = op

(* A field was read up to a position.                                      *)
Took(op, value, to) ==
    rr' = [rr EXCEPT !.fields = Tail(@), !.cur = to, !.data = Append(@, [op |-> op, value |-> value])]

Enough == IF Field.op = "need" THEN rr.cur + Field.n <= rr.end ELSE rr.cur + Field.n = rr.end

CheckLength ==
    /\ AtField("need") \/ AtField("exactly")
    /\ \/ /\ Enough
          /\ rr' = [rr EXCEPT !.fields = Tail(@)]
          /\ UNCHANGED <<packet, pc, off, left, nm, msg>>
       \/ ~Enough /\ EndRecord(FALSE)

ReadNumbers ==
    /\ AtField("numbers")
    /\ \/ rr.cur + Field.n > Size /\ Goto("panic") /\ UNCHANGED rr
       \/ /\ rr.cur + Field.n <= Size
          /\ Took("numbers", Cells(rr.cur, rr.cur + Field.n), rr.cur + Field.n)
          /\ UNCHANGED pc
    /\ UNCHANGED <<packet, off, left, nm, msg>>

ReadName ==
    /\ AtField("name")
    /\ CallName("rdata", rr.cur)
    /\ UNCHANGED <<packet, off, left, rr, msg>>

EndRDataName ==
    /\ pc = "named" /\ nm.user = "rdata"
    /\ Took("name", Join(nm.labels), nm.next)
    /\ Goto("field")
    /\ UNCHANGED <<packet, off, left, nm, msg>>

ReadCounted ==
    /\ AtField("counted")
    /\ \/ rr.cur >= Size /\ Goto("panic") /\ UNCHANGED <<packet, off, left, nm, rr, msg>>
       \/ /\ rr.cur < Size
          /\ rr.cur + 1 + At(rr.cur) <= rr.end
          /\ Took("counted", Cells(rr.cur + 1, rr.cur + 1 + At(rr.cur)), rr.cur + 1 + At(rr.cur))
          /\ UNCHANGED <<packet, pc, off, left, nm, msg>>
       \/ /\ rr.cur < Size
          /\ rr.cur + 1 + At(rr.cur) > rr.end
          /\ EndRecord(FALSE)

StringEnd(at) == at + 1 + At(at)

(* A string of TXT; the field goes on as long as there are cells.          *)
ReadString ==
    /\ AtField("strings") /\ rr.cur < rr.end
    /\ \/ /\ StringEnd(rr.cur) <= rr.end
          /\ rr' = [rr EXCEPT !.cur = StringEnd(@),
                       !.data = Append(@, [op |-> "counted", value |-> Cells(rr.cur + 1, StringEnd(rr.cur))])]
          /\ UNCHANGED <<packet, pc, off, left, nm, msg>>
       \/ StringEnd(rr.cur) > rr.end /\ EndRecord(FALSE)

EndStrings ==
    /\ AtField("strings") /\ rr.cur >= rr.end
    /\ rr' = [rr EXCEPT !.fields = Tail(@)]
    /\ UNCHANGED <<packet, pc, off, left, nm, msg>>

ReadRest ==
    /\ AtField("rest")
    /\ \/ rr.cur > rr.end /\ Goto("panic") /\ UNCHANGED rr
       \/ rr.cur <= rr.end /\ Took("rest", Cells(rr.cur, rr.end), rr.end) /\ UNCHANGED pc
    /\ UNCHANGED <<packet, off, left, nm, msg>>

EndFields == pc = "field" /\ rr.fields = <<>> /\ EndRecord(TRUE)
-----------------------------------------------------------------------------
decodeName == FollowPointer \/ ReadLabel \/ NameEnds \/ NameFails \/ BadName
parseRData ==
    \/ CheckLength \/ ReadNumbers \/ ReadName \/ EndRDataName
    \/ ReadCounted \/ ReadString \/ EndStrings \/ ReadRest \/ EndFields

Next ==
    \/ DecodeHeader \/ NextQuestion \/ NextRecord \/ Finish
    \/ decodeName \/ EndQuestion \/ StartRecord \/ parseRData

Spec == Init /\ [][Next]_vars

(* Decode is a plain call: it goes on as long as it can.                   *)
FairSpec == Spec /\ WF_vars(Next)
-----------------------------------------------------------------------------
Cell == Nat
Text == Seq(Cell)
Item == [op : {"numbers", "name", "counted", "rest"}, value : Text]
Message ==
    [questions : Seq([name : Text, type : Cell]),
     records : Seq([name : Text, type : Cell, raw : Text, parsed : BOOLEAN, data : Seq(Item)])]

TypeOK ==
    /\ packet \in Seq(Cell)
    /\ pc \in {"start", "section", "name", "named", "badname", "field"} \cup Ended
    /\ off \in Nat
    /\ left \in [questions : Nat, records : Nat]
    /\ nm \in [user : {"question", "record", "rdata"}, curr : Nat, next : Nat \cup {-1},
               labels : Seq(Text), visited : SUBSET Nat, jumps : Nat]
    /\ rr \in [name : Text, type : Cell, start : Nat, end : Nat, cur : Nat,
               fields : Seq([op : {"need", "exactly", "numbers", "name", "counted", "strings", "rest"}, n : Nat]),
               data : Seq(Item)]
    /\ msg \in Message

(* Whatever the packet holds, Decode takes no cell outside it and no slice *)
(* that ends before it begins ("The decoder must never panic regardless of *)
(* input", SPEC.md:901): every length that counts is looked at first.      *)
NeverPanics == pc # "panic"

(* Decode comes to an end on every packet: pointers that loop, empty       *)
(* strings and counts that promise more than there is do not keep it busy. *)
DecodingEnds == pc = "start" ~> pc \in Ended
=============================================================================
