---------------------------- MODULE DecoderProofs ----------------------------
(***************************************************************************)
(* Decode takes nothing outside the packet, for packets of any length and  *)
(* content and for any limits; and a message of ASCII names that Encode    *)
(* accepts comes back from Decode, its first question octet by octet       *)
(* whatever the names.  What Go's tables make of other names in lower case *)
(* (LowerRunes) is not assumed to be anything.                             *)
(*                                                                         *)
(* parseRData is safe by the order of its fields: what is read without     *)
(* looking (numbers, a counted string's length, the rest) is guarded by    *)
(* the field before it, and a name, after which the position may be        *)
(* anywhere, is never followed by such a field.                            *)
(*                                                                         *)
(* The echo rests on the opening of the packet: the counts, the labels of  *)
(* the first question and the zero octet.  The encoder has nothing to      *)
(* point back to when it writes them and patches nothing before their end; *)
(* the decoder walks them label by label and stops nowhere else.  What the *)
(* operators on texts compute (FlattenSeq, a fold, and the counting of     *)
(* dots) is settled first, by induction over the natural numbers.          *)
(*                                                                         *)
(* The round trip rests on a layout of the packet: a set of entries that   *)
(* say which labels are to be read at which offset, and the positions of   *)
(* the parts of the message and of the fields of the data.  The table of   *)
(* suffixes leads to entries only, a pointer leads back before the name it *)
(* ends, and the length that is patched lies under none of them (LayInv).  *)
(* An ASCII suffix is looked up by its letters, so two that are taken for  *)
(* the same have the same length and differ in case at most.               *)
(* The decoder is then followed through the layout (Progress): the labels  *)
(* read and those still to be read are those of the name, and every field  *)
(* it looks for is there, since the data has the form of its type          *)
(* (ShapeInv).                                                             *)
(***************************************************************************)
EXTENDS RoundTrip, SequenceTheorems, FiniteSetTheorems, WellFoundedInduction, TLAPS

Ops == {"need", "exactly", "numbers", "name", "counted", "strings", "rest"}
Fields == [op : Ops, n : Nat]

(* What must come before a field that is read without looking.             *)
Guards(f, i) ==
    /\ f[i + 1].op = "numbers" =>
          /\ f[i].op = "need" /\ f[i].n >= f[i + 1].n
          /\ i + 2 <= Len(f) => (f[i + 2].op = "counted" => f[i].n > f[i + 1].n)
    /\ f[i + 1].op = "counted" => f[i].op = "numbers" \/ (f[i].op = "need" /\ f[i].n > 0)
    /\ f[i + 1].op = "rest" => f[i].op \in {"need", "exactly", "numbers", "counted"}

Guarded(f) == f \in Seq(Fields) /\ \A i \in 1 .. Len(f) - 1 : Guards(f, i)

(* What is known of the position when a field is reached.                  *)
Reached(f, cur, end) ==
    f # <<>> =>
        /\ f[1].op = "numbers" =>
              /\ cur + f[1].n <= end
              /\ 2 <= Len(f) => (f[2].op = "counted" => cur + f[1].n < end)
        /\ f[1].op = "counted" => cur < end
        /\ f[1].op = "rest" => cur <= end

NameType ==
    [user : {"question", "record", "rdata"}, curr : Nat, next : Nat \cup {-1},
     labels : Seq(Seq(Nat)), visited : SUBSET Nat, jumps : Nat]

RecordOK ==
    /\ DOMAIN rr = {"name", "type", "start", "end", "cur", "fields", "data"}
    /\ rr.cur \in Nat /\ rr.end \in Nat /\ rr.end <= Size
    /\ Guarded(rr.fields)

InName == pc \in {"name", "named", "badname"}

IInv ==
    /\ packet \in Seq(Nat) /\ off \in Nat
    /\ nm \in NameType
    /\ RecordOK
    /\ pc # "panic"
    /\ pc = "named" => nm.next \in Nat
    /\ pc = "field" => Reached(rr.fields, rr.cur, rr.end)
    /\ InName /\ nm.user = "rdata" => rr.fields # <<>> /\ rr.fields[1].op = "name"

(* A guarded list stays guarded when its first field has been taken.       *)
LEMMA TailGuarded ==
  ASSUME NEW f, Guarded(f), f # <<>>
  PROVE  /\ Guarded(Tail(f))
         /\ Head(f) = f[1] /\ f[1] \in Fields
         /\ Tail(f) # <<>> => /\ Len(f) >= 2 /\ Tail(f)[1] = f[2] /\ f[2] \in Fields /\ Guards(f, 1)
                              /\ Len(Tail(f)) >= 2 => Tail(f)[2] = f[3] /\ Len(f) >= 3
<1>1. /\ f \in Seq(Fields) /\ Len(f) \in Nat /\ Len(f) > 0
      /\ Tail(f) \in Seq(Fields) /\ Len(Tail(f)) = Len(f) - 1
      /\ \A i \in 1 .. Len(f) - 1 : Tail(f)[i] = f[i + 1]
      /\ Head(f) = f[1]
      /\ \A i \in 1 .. Len(f) : f[i] \in Fields
  BY HeadTailProperties, EmptySeq, LenProperties, ElementOfSeq DEF Guarded
<1>2. ASSUME NEW i \in 1 .. Len(Tail(f)) - 1 PROVE Guards(Tail(f), i)
  <2>1. i + 1 \in 1 .. Len(f) - 1 /\ i \in 1 .. Len(f) - 1
    BY <1>1
  <2>2. Guards(f, i + 1)
    BY <2>1 DEF Guarded
  <2>3. Tail(f)[i] = f[i + 1] /\ Tail(f)[i + 1] = f[(i + 1) + 1]
    BY <1>1, <2>1
  <2>4. i + 2 <= Len(Tail(f)) => Tail(f)[i + 2] = f[(i + 1) + 2]
    BY <1>1, <2>1
  <2> QED BY <1>1, <2>1, <2>2, <2>3, <2>4 DEF Guards
<1>3. ASSUME Tail(f) # <<>>
      PROVE  /\ Len(f) >= 2 /\ Tail(f)[1] = f[2] /\ f[2] \in Fields /\ Guards(f, 1)
             /\ Len(Tail(f)) >= 2 => Tail(f)[2] = f[3] /\ Len(f) >= 3
  <2>1. Len(Tail(f)) > 0
    BY <1>1, <1>3, EmptySeq, LenProperties
  <2> QED BY <1>1, <2>1 DEF Guarded
<1> QED BY <1>1, <1>2, <1>3 DEF Guarded

(* The fields of every type are guarded, and the first one is safe to      *)
(* reach at the start of data that lies in the packet.                     *)
LEMMA FieldsAreGuarded ==
  ASSUME NEW type \in Nat, NEW cur \in Nat, NEW end \in Nat, cur <= end
  PROVE  Guarded(RDataFields(type)) /\ Reached(RDataFields(type), cur, end)
<1> USE DEF Guarded, Guards, Reached, Fields, Ops, Need, Exactly, Numbers, Name, Counted, Strings, Rest
<1> DEFINE Safe(f) == Guarded(f) /\ Reached(f, cur, end)
<1>1. Safe(<<Exactly(1), Rest>>)
  OBVIOUS
<1>2. Safe(<<Name, Need(0)>>) /\ Safe(<<Name>>) /\ Safe(<<Strings>>) /\ Safe(<<Rest>>)
  OBVIOUS
<1>3. Safe(<<Need(2), Numbers(1), Name>>) /\ Safe(<<Need(4), Numbers(3), Name>>)
  OBVIOUS
<1>4. Safe(<<Name, Name, Need(5), Numbers(5)>>)
  OBVIOUS
<1>5. Safe(<<Need(2), Numbers(1), Counted, Rest>>)
  OBVIOUS
<1>6. Safe(<<Need(7), Numbers(7), Name, Need(0), Rest>>)
  OBVIOUS
<1>7. Safe(<<Need(3), Numbers(3), Rest>>) /\ Safe(<<Name, Need(0), Rest>>)
  OBVIOUS
<1>8. Safe(<<Need(4), Numbers(3), Counted, Need(1), Counted, Rest>>)
  OBVIOUS
<1> HIDE DEF Safe, Need, Exactly, Numbers, Name, Counted, Strings, Rest
<1>9. Safe(RDataFields(type))
  BY <1>1, <1>2, <1>3, <1>4, <1>5, <1>6, <1>7, <1>8
     DEF RDataFields, NSECFields, TypeA, TypeAAAA, TypeCNAME, TypeNS, TypePTR, TypeMX, TypeSOA,
         TypeTXT, TypeSRV, TypeCAA, TypeRRSIG, TypeDNSKEY, TypeDS, TypeNSEC, TypeNSEC3
<1> QED BY <1>9 DEF Safe

(* A cell of the packet is a number, and so is where a pointer leads.      *)
LEMMA CellType ==
  ASSUME packet \in Seq(Nat)
  PROVE  /\ Size \in Nat
         /\ \A o \in Nat : o < Size => At(o) \in Nat
         /\ \A from \in Nat, to \in Nat : to <= Size => Cells(from, to) \in Seq(Nat)
<1>1. Size \in Nat
  BY LenProperties DEF Size
<1>2. ASSUME NEW o \in Nat, o < Size PROVE At(o) \in Nat
  <2>1. o + 1 \in 1 .. Len(packet)
    BY <1>1, <1>2 DEF Size
  <2> QED BY <2>1, ElementOfSeq DEF At
<1>3. ASSUME NEW from \in Nat, NEW to \in Nat, to <= Size PROVE Cells(from, to) \in Seq(Nat)
  <2>1. \A i \in from + 1 .. to : i \in 1 .. Len(packet)
    BY <1>1, <1>3 DEF Size
  <2> QED BY <2>1, SubSeqProperties DEF Cells
<1> QED BY <1>1, <1>2, <1>3

(* The fields after one that has been taken are reached safely: whatever   *)
(* has to be known of the position is known by then.                       *)
LEMMA NextIsReached ==
  ASSUME NEW f, Guarded(f), f # <<>>,
         NEW cur \in Nat, NEW end \in Nat, NEW to \in Nat, Reached(f, cur, end),
         \/ f[1].op = "need" /\ to = cur /\ cur + f[1].n <= end
         \/ f[1].op = "exactly" /\ to = cur /\ cur + f[1].n = end
         \/ f[1].op = "numbers" /\ to = cur + f[1].n
         \/ f[1].op = "counted" /\ to <= end
         \/ f[1].op \in {"name", "strings", "rest"}
  PROVE  Guarded(Tail(f)) /\ Reached(Tail(f), to, end)
<1>1. Guarded(Tail(f)) /\ f[1] \in Fields
  BY TailGuarded
<1>2. CASE Tail(f) = <<>>
  BY <1>1, <1>2 DEF Reached
<1>3. CASE Tail(f) # <<>>
  <2>1. /\ Len(f) >= 2 /\ Tail(f)[1] = f[2] /\ f[2] \in Fields /\ Guards(f, 1)
        /\ Len(Tail(f)) >= 2 => Tail(f)[2] = f[3] /\ Len(f) >= 3
    BY <1>3, TailGuarded
  <2>2. Len(f) \in Nat /\ Len(Tail(f)) \in Nat
    BY <1>1, LenProperties DEF Guarded
  <2> QED BY <1>1, <1>3, <2>1, <2>2 DEF Guards, Reached, Fields
<1> QED BY <1>2, <1>3

(* The invariant holds before the first step.                              *)
LEMMA InitEstablishes == Init => IInv
<1> SUFFICES ASSUME Init PROVE IInv
  OBVIOUS
<1>1. packet \in Seq(Nat)
  BY PacketsAssumption DEF Init
<1>2. Size \in Nat
  BY <1>1, CellType
<1>3. nm \in NameType
  BY EmptySeq DEF Init, NoName, NameType
<1>4. Guarded(<<>>)
  BY EmptySeq DEF Guarded
<1> QED BY <1>1, <1>2, <1>3, <1>4 DEF Init, IInv, RecordOK, NoRecord, InName

(* A step that leaves the record alone and is not at its fields afterwards *)
(* keeps the invariant, if it keeps what is known of the name.             *)
LEMMA RecordAlone ==
  ASSUME IInv, UNCHANGED <<packet, rr>>, off' \in Nat, nm' \in NameType,
         pc' \notin {"panic", "field"}, pc' = "named" => nm'.next \in Nat,
         InName' /\ nm'.user = "rdata" => rr.fields # <<>> /\ rr.fields[1].op = "name"
  PROVE  IInv'
<1>1. Size' = Size
  BY DEF Size
<1> QED BY <1>1 DEF IInv, RecordOK

(* A step that leads to a field, if the field is safe to reach.            *)
LEMMA FieldReached ==
  ASSUME IInv, UNCHANGED <<packet, off, nm>>, pc' = "field",
         DOMAIN rr' = {"name", "type", "start", "end", "cur", "fields", "data"},
         rr'.cur \in Nat, rr'.end \in Nat, rr'.end <= Size,
         Guarded(rr'.fields), Reached(rr'.fields, rr'.cur, rr'.end)
  PROVE  IInv'
<1>1. Size' = Size
  BY DEF Size
<1> QED BY <1>1 DEF IInv, RecordOK, InName

(* Every step of the decoder keeps the invariant.                          *)
LEMMA Inductive == IInv /\ [Next]_vars => IInv'
<1> SUFFICES ASSUME IInv, [Next]_vars PROVE IInv'
  OBVIOUS
<1>t. /\ packet \in Seq(Nat) /\ off \in Nat /\ nm \in NameType
      /\ nm.curr \in Nat /\ nm.next \in Nat \cup {-1} /\ nm.labels \in Seq(Seq(Nat))
      /\ nm.visited \in SUBSET Nat /\ nm.jumps \in Nat
      /\ rr.cur \in Nat /\ rr.end \in Nat /\ rr.end <= Size /\ Guarded(rr.fields)
  BY DEF IInv, NameType, RecordOK
<1>c. /\ Size \in Nat
      /\ \A o \in Nat : o < Size => At(o) \in Nat
      /\ \A from \in Nat, to \in Nat : to <= Size => Cells(from, to) \in Seq(Nat)
  BY <1>t, CellType
<1>m. nm \in NameType
  BY <1>t
<1>i. rr.cur \in Nat /\ rr.end \in Nat /\ Size \in Nat /\ rr.end <= Size
  BY <1>t, <1>c
<1>a. \A o \in Nat : o < Size => At(o) \in Nat
  BY <1>c
<1>n. ASSUME NEW user \in {"question", "record", "rdata"}, NEW at \in Nat
      PROVE  [NoName EXCEPT !.user = user, !.curr = at] \in NameType
  BY EmptySeq DEF NoName, NameType
<1>1. CASE UNCHANGED vars
  <2>1. Size' = Size
    BY <1>1 DEF Size, vars
  <2>2. UNCHANGED <<packet, pc, off, nm, rr>>
    BY <1>1 DEF vars
  <2>3. RecordOK' /\ InName' = InName
    BY <2>1, <2>2 DEF IInv, RecordOK, InName
  <2> QED BY <2>2, <2>3 DEF IInv
<1>2. CASE DecodeHeader
  <2>1. off' \in Nat /\ UNCHANGED <<packet, rr, nm>> /\ pc' \in {"error", "section"}
    BY <1>2, <1>t DEF DecodeHeader, Goto, HeaderSize
  <2> QED BY <2>1, <1>t, RecordAlone DEF InName
<1>3. CASE NextQuestion \/ NextRecord
  <2>1. /\ off' \in Nat /\ UNCHANGED <<packet, rr>> /\ pc' \in {"name", "badname"}
        /\ nm' \in NameType /\ nm'.user # "rdata"
    <3>1. CASE NextQuestion
      BY <1>t, <1>n, <3>1 DEF NextQuestion, CallName, Goto, NoName
    <3>2. CASE NextRecord
      BY <1>t, <1>n, <3>2 DEF NextRecord, CallName, Goto, NoName
    <3> QED BY <1>3, <3>1, <3>2
  <2> QED BY <2>1, RecordAlone
<1>4. CASE Finish
  <2>1. off' \in Nat /\ UNCHANGED <<packet, rr, nm>> /\ pc' \in {"error", "done"}
    BY <1>4, <1>t DEF Finish, Goto
  <2> QED BY <2>1, <1>t, RecordAlone DEF InName
<1>5. CASE FollowPointer
  <2>1. PointerTarget \in Nat
    <3>1. nm.curr + 1 \in Nat /\ nm.curr + 1 < Size /\ nm.curr < Size
      BY <1>5, <1>t DEF FollowPointer, GoodPointer
    <3>2. Octet \in Nat /\ At(nm.curr + 1) \in Nat
      BY <3>1, <1>t, <1>c DEF Octet
    <3> QED BY <3>2 DEF PointerTarget
  <2>2. NextAfter(2) \in Nat
    BY <1>t DEF NextAfter
  <2>3. nm' \in NameType /\ nm'.user = nm.user
    <3>1. nm' = Jumped
      BY <1>5 DEF FollowPointer
    <3>2. nm.visited \cup {PointerTarget} \in SUBSET Nat /\ nm.jumps + 1 \in Nat
      BY <2>1, <1>m DEF NameType
    <3> QED BY <3>1, <3>2, <2>1, <2>2, <1>m DEF Jumped, NameType
  <2>4. UNCHANGED <<packet, rr, off, pc>> /\ pc = "name"
    BY <1>5 DEF FollowPointer
  <2> QED BY <2>3, <2>4, <1>t, RecordAlone DEF IInv, InName
<1>6. CASE ReadLabel
  <2>1. Octet \in Nat /\ nm.curr + 1 + Octet <= Size
    BY <1>6, <1>t, <1>c DEF ReadLabel, GoodLabel, Octet
  <2>2. Append(nm.labels, Cells(nm.curr + 1, nm.curr + 1 + Octet)) \in Seq(Seq(Nat))
    <3>1. Cells(nm.curr + 1, nm.curr + 1 + Octet) \in Seq(Nat)
      <4>1. nm.curr + 1 \in Nat /\ nm.curr + 1 + Octet \in Nat
        BY <2>1, <1>m DEF NameType
      <4> QED BY <2>1, <4>1, <1>c
    <3>2. nm.labels \in Seq(Seq(Nat))
      BY <1>m DEF NameType
    <3> QED BY <3>1, <3>2, AppendProperties
  <2>3. nm' \in NameType /\ nm'.user = nm.user
    <3>1. nm' = [nm EXCEPT !.labels = Append(@, Cells(nm.curr + 1, nm.curr + 1 + Octet)), !.curr = @ + 1 + Octet]
      BY <1>6 DEF ReadLabel
    <3>2. nm.curr + 1 + Octet \in Nat
      BY <2>1, <1>m DEF NameType
    <3> QED BY <3>1, <3>2, <2>2, <1>m DEF NameType
  <2>4. UNCHANGED <<packet, rr, off, pc>> /\ pc = "name"
    BY <1>6 DEF ReadLabel
  <2> QED BY <2>3, <2>4, <1>t, RecordAlone DEF IInv, InName
<1>7. CASE NameEnds
  <2>1. NextAfter(1) \in Nat
    BY <1>t DEF NextAfter
  <2>2. nm' \in NameType /\ nm'.user = nm.user /\ nm'.next \in Nat
    BY <1>7, <2>1, <1>t DEF NameEnds, NameType
  <2>3. UNCHANGED <<packet, rr, off>> /\ pc = "name" /\ pc' = "named"
    BY <1>7 DEF NameEnds, Goto
  <2> QED BY <2>2, <2>3, <1>t, RecordAlone DEF IInv, InName
<1>8. CASE NameFails
  <2>1. UNCHANGED <<packet, rr, off, nm>> /\ pc = "name" /\ pc' = "badname"
    BY <1>8 DEF NameFails, Goto
  <2> QED BY <2>1, <1>t, RecordAlone DEF IInv, InName
<1>r. ASSUME NEW parsed, EndRecord(parsed) PROVE IInv'
  <2>1. UNCHANGED <<packet, rr, nm>> /\ off' \in Nat /\ pc' = "section"
    BY <1>r, <1>t DEF EndRecord, Goto
  <2> QED BY <2>1, <1>t, RecordAlone DEF InName
<1>9. CASE BadName
  <2>1. CASE EndRecord(FALSE)
    BY <2>1, <1>r
  <2>2. CASE Goto("error") /\ UNCHANGED <<packet, off, left, nm, rr, msg>>
    BY <2>2, <1>t, RecordAlone DEF Goto, InName
  <2> QED BY <1>9, <2>1, <2>2 DEF BadName
<1>10. CASE EndQuestion
  <2>1. UNCHANGED <<packet, rr, nm>> /\ off' \in Nat /\ pc' \in {"error", "section"}
    BY <1>10, <1>t DEF EndQuestion, Goto, QuestionFixed, IInv
  <2> QED BY <2>1, <1>t, RecordAlone DEF InName
<1>11. CASE StartRecord
  <2> DEFINE start == nm.next + RecordFixed
  <2> DEFINE end == start + At(nm.next + 1)
  <2>1. UNCHANGED <<packet, off, nm>> /\ nm.next \in Nat /\ start \in Nat
    BY <1>11 DEF StartRecord, IInv, RecordFixed
  <2>2. CASE Goto("error") /\ UNCHANGED rr
    BY <2>1, <2>2, <1>t, RecordAlone DEF Goto, InName
  <2>3. CASE /\ start <= Size /\ end <= Size
             /\ rr' = [name |-> Join(nm.labels), type |-> At(nm.next), start |-> start, end |-> end, cur |-> start,
                       fields |-> RDataFields(At(nm.next)), data |-> <<>>]
             /\ Goto("field")
    <3>1. At(nm.next) \in Nat /\ At(nm.next + 1) \in Nat
      BY <2>1, <2>3, <1>i, <1>a DEF RecordFixed
    <3>2. end \in Nat /\ start <= end
      BY <2>1, <3>1
    <3>3. Guarded(RDataFields(At(nm.next))) /\ Reached(RDataFields(At(nm.next)), start, end)
      BY <2>1, <3>1, <3>2, FieldsAreGuarded
    <3>4. /\ rr'.cur = start /\ rr'.end = end /\ rr'.fields = RDataFields(At(nm.next))
          /\ DOMAIN rr' = {"name", "type", "start", "end", "cur", "fields", "data"}
      BY <2>3
    <3> HIDE DEF start, end
    <3> QED BY <2>1, <2>3, <3>2, <3>3, <3>4, FieldReached DEF Goto
  <2> QED BY <1>11, <2>2, <2>3 DEF StartRecord
<1>f. ASSUME pc = "field", rr.fields # <<>>
      PROVE  /\ Field = rr.fields[1] /\ Field \in Fields /\ Field.n \in Nat
             /\ Reached(rr.fields, rr.cur, rr.end)
  BY <1>f, <1>t, TailGuarded DEF Field, Fields, IInv
<1>12. CASE CheckLength
  <2>1. /\ Field = rr.fields[1] /\ Field.n \in Nat /\ Reached(rr.fields, rr.cur, rr.end)
        /\ rr.fields # <<>> /\ pc = "field" /\ Field.op \in {"need", "exactly"}
    BY <1>12, <1>f DEF CheckLength, AtField
  <2>2. CASE EndRecord(FALSE)
    BY <2>2, <1>r
  <2>3. CASE Enough /\ rr' = [rr EXCEPT !.fields = Tail(@)] /\ UNCHANGED <<packet, pc, off, left, nm, msg>>
    <3>1. /\ rr'.fields = Tail(rr.fields) /\ rr'.cur = rr.cur /\ rr'.end = rr.end
          /\ DOMAIN rr' = {"name", "type", "start", "end", "cur", "fields", "data"}
      BY <2>3 DEF IInv, RecordOK
    <3>2. Guarded(Tail(rr.fields)) /\ Reached(Tail(rr.fields), rr.cur, rr.end)
      BY <2>1, <2>3, <1>t, NextIsReached DEF Enough
    <3> QED BY <2>1, <2>3, <3>1, <3>2, <1>t, FieldReached
  <2> QED BY <1>12, <2>2, <2>3 DEF CheckLength
<1>k. ASSUME NEW op, NEW value, NEW to \in Nat, Took(op, value, to), UNCHANGED <<packet, off, nm>>, pc' = "field",
             Guarded(Tail(rr.fields)) /\ Reached(Tail(rr.fields), to, rr.end)
      PROVE  IInv'
  <2>1. /\ rr'.fields = Tail(rr.fields) /\ rr'.cur = to /\ rr'.end = rr.end
        /\ DOMAIN rr' = {"name", "type", "start", "end", "cur", "fields", "data"}
    BY <1>k DEF Took, IInv, RecordOK
  <2> QED BY <2>1, <1>k, <1>t, FieldReached
<1>13. CASE ReadNumbers
  <2>1. /\ Field = rr.fields[1] /\ Field.n \in Nat /\ Reached(rr.fields, rr.cur, rr.end)
        /\ rr.fields # <<>> /\ pc = "field" /\ Field.op = "numbers" /\ UNCHANGED <<packet, off, nm>>
    BY <1>13, <1>f DEF ReadNumbers, AtField
  <2>2. rr.cur + Field.n <= rr.end
    BY <2>1 DEF Reached
  <2>3. rr.cur + Field.n \in Nat /\ ~(rr.cur + Field.n > Size)
    BY <2>1, <2>2, <1>i
  <2>4. Took("numbers", Cells(rr.cur, rr.cur + Field.n), rr.cur + Field.n) /\ pc' = "field"
    BY <1>13, <2>1, <2>3 DEF ReadNumbers
  <2>5. Guarded(Tail(rr.fields)) /\ Reached(Tail(rr.fields), rr.cur + Field.n, rr.end)
    BY <2>1, <2>3, <1>t, NextIsReached
  <2> QED BY <2>1, <2>3, <2>4, <2>5, <1>k
<1>14. CASE ReadName
  <2>1. /\ nm' \in NameType /\ pc' \in {"name", "badname"} /\ UNCHANGED <<packet, off, rr>>
        /\ rr.fields # <<>> /\ rr.fields[1].op = "name"
    BY <1>14, <1>t, <1>n, <1>f DEF ReadName, AtField, CallName, Goto
  <2> QED BY <2>1, <1>t, RecordAlone
<1>15. CASE EndRDataName
  <2>1. /\ rr.fields # <<>> /\ rr.fields[1].op = "name" /\ nm.next \in Nat
        /\ Took("name", Join(nm.labels), nm.next) /\ pc' = "field" /\ UNCHANGED <<packet, off, nm>>
    BY <1>15 DEF EndRDataName, IInv, InName, Goto
  <2>2. Reached(rr.fields, rr.cur, rr.end)
    BY <2>1 DEF Reached
  <2>3. Guarded(Tail(rr.fields)) /\ Reached(Tail(rr.fields), nm.next, rr.end)
    BY <2>1, <2>2, <1>t, NextIsReached
  <2> QED BY <2>1, <2>3, <1>k
<1>16. CASE ReadCounted
  <2>1. /\ Field = rr.fields[1] /\ Reached(rr.fields, rr.cur, rr.end)
        /\ rr.fields # <<>> /\ pc = "field" /\ Field.op = "counted"
    BY <1>16, <1>f DEF ReadCounted, AtField
  <2>2. rr.cur < rr.end /\ rr.cur < Size /\ ~(rr.cur >= Size)
    <3>1. rr.cur < rr.end
      BY <2>1 DEF Reached
    <3> QED BY <3>1, <1>i
  <2>3. CASE EndRecord(FALSE)
    BY <2>3, <1>r
  <2> DEFINE to == rr.cur + 1 + At(rr.cur)
  <2>4. CASE to <= rr.end /\ Took("counted", Cells(rr.cur + 1, to), to) /\ UNCHANGED <<packet, pc, off, left, nm, msg>>
    <3>1. to \in Nat
      BY <2>2, <1>i, <1>a
    <3>2. Guarded(Tail(rr.fields)) /\ Reached(Tail(rr.fields), to, rr.end)
      BY <2>1, <2>4, <3>1, <1>t, NextIsReached
    <3> QED BY <2>1, <2>4, <3>1, <3>2, <1>k
  <2> QED BY <1>16, <2>2, <2>3, <2>4 DEF ReadCounted
<1>17. CASE ReadString
  <2>1. /\ rr.fields # <<>> /\ pc = "field" /\ rr.cur < rr.end /\ rr.cur < Size
        /\ rr.fields[1].op = "strings"
    <3>1. rr.fields # <<>> /\ pc = "field" /\ rr.cur < rr.end /\ Field.op = "strings"
      BY <1>17 DEF ReadString, AtField
    <3>2. rr.cur < Size
      BY <3>1, <1>i
    <3> QED BY <3>1, <3>2, <1>f
  <2>2. CASE EndRecord(FALSE)
    BY <2>2, <1>r
  <2>3. CASE /\ rr' = [rr EXCEPT !.cur = StringEnd(@),
                          !.data = Append(@, [op |-> "counted", value |-> Cells(rr.cur + 1, StringEnd(rr.cur))])]
             /\ UNCHANGED <<packet, pc, off, left, nm, msg>>
    <3>1. StringEnd(rr.cur) \in Nat
      BY <2>1, <1>i, <1>a DEF StringEnd
    <3>2. /\ rr'.fields = rr.fields /\ rr'.cur = StringEnd(rr.cur) /\ rr'.end = rr.end
          /\ DOMAIN rr' = {"name", "type", "start", "end", "cur", "fields", "data"}
      BY <2>3 DEF IInv, RecordOK
    <3>3. Reached(rr.fields, StringEnd(rr.cur), rr.end)
      BY <2>1 DEF Reached
    <3> QED BY <2>1, <2>3, <3>1, <3>2, <3>3, <1>t, FieldReached
  <2> QED BY <1>17, <2>2, <2>3 DEF ReadString
<1>18. CASE EndStrings
  <2>1. /\ rr.fields # <<>> /\ pc = "field" /\ rr.fields[1].op = "strings" /\ Reached(rr.fields, rr.cur, rr.end)
        /\ rr' = [rr EXCEPT !.fields = Tail(@)] /\ UNCHANGED <<packet, pc, off, left, nm, msg>>
    BY <1>18, <1>f DEF EndStrings, AtField
  <2>2. /\ rr'.fields = Tail(rr.fields) /\ rr'.cur = rr.cur /\ rr'.end = rr.end
        /\ DOMAIN rr' = {"name", "type", "start", "end", "cur", "fields", "data"}
    BY <2>1 DEF IInv, RecordOK
  <2>3. Guarded(Tail(rr.fields)) /\ Reached(Tail(rr.fields), rr.cur, rr.end)
    BY <2>1, <1>t, NextIsReached
  <2> QED BY <2>1, <2>2, <2>3, <1>t, FieldReached
<1>19. CASE ReadRest
  <2>1. /\ rr.fields # <<>> /\ pc = "field" /\ rr.fields[1].op = "rest" /\ Reached(rr.fields, rr.cur, rr.end)
        /\ UNCHANGED <<packet, off, nm>>
    BY <1>19, <1>f DEF ReadRest, AtField
  <2>2. ~(rr.cur > rr.end)
    BY <2>1, <1>t DEF Reached
  <2>3. Took("rest", Cells(rr.cur, rr.end), rr.end) /\ pc' = "field"
    BY <1>19, <2>1, <2>2 DEF ReadRest
  <2>4. Guarded(Tail(rr.fields)) /\ Reached(Tail(rr.fields), rr.end, rr.end)
    BY <2>1, <1>t, NextIsReached
  <2> QED BY <2>1, <2>3, <2>4, <1>t, <1>k
<1>20. CASE EndFields
  BY <1>20, <1>r DEF EndFields
<1> QED
  BY <1>1, <1>2, <1>3, <1>4, <1>5, <1>6, <1>7, <1>8, <1>9, <1>10, <1>11, <1>12, <1>13, <1>14, <1>15,
     <1>16, <1>17, <1>18, <1>19, <1>20 DEF Next, decodeName, parseRData

(* Decode never panics, whatever the packet and the limits: no step takes  *)
(* a cell outside the packet or a slice that ends before it begins.        *)
THEOREM DecodeIsSafe == Spec => []NeverPanics
<1>1. IInv => NeverPanics
  BY DEF IInv, NeverPanics
<1> QED BY <1>1, InitEstablishes, Inductive, PTL DEF Spec
-------------------------------------------------------------------------------

(* Induction over the natural numbers, for a set: a least number outside   *)
(* it would have a predecessor in it.                                      *)
LEMMA Induction ==
    ASSUME NEW S, 0 \in S, \A n \in Nat : n \in S => n + 1 \in S
    PROVE  Nat \subseteq S
<1> DEFINE R == {p \in Nat \X Nat : p[1] < p[2]}
           T == Nat \ S
<1>1. IsWellFoundedOn(R, Nat)
  BY NatLessThanWellFounded DEF OpToRel
<1> HIDE DEF R
<1> SUFFICES ASSUME T # {} PROVE FALSE
  OBVIOUS
<1>2. PICK m \in T : \A n \in T : ~(<<n, m>> \in R)
  <2> HIDE DEF T
  <2>1. T \subseteq Nat
    BY DEF T
  <2> QED  BY <1>1, <2>1, WFMin
<1>3. m \in Nat /\ m - 1 \in Nat
  OBVIOUS
<1>4. <<m - 1, m>> \in R
  BY <1>3 DEF R
<1> QED  BY <1>2, <1>3, <1>4

(* P[i] is the first i of the texts c, one after the other.                *)
Joins(P, c, n) ==
    /\ P \in [0 .. n -> Seq(Nat)]
    /\ P[0] = <<>>
    /\ \A i \in 1 .. n : P[i] = P[i - 1] \o c[i]

(* Such prefixes exist: one more text extends those of the texts before.   *)
LEMMA JoinsExists ==
    ASSUME NEW n \in Nat, NEW c, \A i \in 1 .. n : c[i] \in Seq(Nat)
    PROVE  \E P : Joins(P, c, n)
<1> DEFINE Has(m) == \E P : Joins(P, c, m)
           S == {m \in Nat : m <= n => Has(m)}
<1>1. 0 \in S
  <2> DEFINE P == [i \in 0 .. 0 |-> <<>>]
  <2>1. <<>> \in Seq(Nat)
    BY EmptySeq
  <2>2. Joins(P, c, 0)
    BY <2>1 DEF Joins
  <2> QED  BY <2>2
<1>2. ASSUME NEW m \in Nat, m \in S  PROVE m + 1 \in S
  <2> SUFFICES ASSUME m + 1 <= n  PROVE Has(m + 1)
    OBVIOUS
  <2>1. PICK P : Joins(P, c, m)
    BY <1>2
  <2> DEFINE more == P[m] \o c[m + 1]
             Q == [i \in 0 .. m + 1 |-> IF i = m + 1 THEN more ELSE P[i]]
  <2>2. P \in [0 .. m -> Seq(Nat)] /\ P[0] = <<>> /\ P[m] \in Seq(Nat) /\ c[m + 1] \in Seq(Nat)
    BY <2>1 DEF Joins
  <2>3. more \in Seq(Nat)
    BY <2>2, ConcatProperties
  <2> HIDE DEF more
  <2>4. Q \in [0 .. m + 1 -> Seq(Nat)] /\ Q[0] = <<>>
    BY <2>2, <2>3
  <2>5. ASSUME NEW i \in 1 .. m + 1  PROVE Q[i] = Q[i - 1] \o c[i]
    <3>1. CASE i = m + 1
      <4>1. i - 1 = m /\ m \in 0 .. m + 1 /\ i \in 0 .. m + 1 /\ m # m + 1
        BY <3>1
      <4>2. Q[m] = P[m] /\ Q[i] = more
        BY <3>1, <4>1
      <4>3. more = P[m] \o c[i]
        BY <3>1 DEF more
      <4> QED  BY <4>1, <4>2, <4>3
    <3>2. CASE i # m + 1
      <4>1. i \in 1 .. m /\ i \in 0 .. m + 1 /\ i - 1 \in 0 .. m + 1 /\ i - 1 # m + 1
        BY <3>2
      <4>2. P[i] = P[i - 1] \o c[i]
        BY <2>1, <4>1 DEF Joins
      <4> QED  BY <3>2, <4>1, <4>2
    <3> QED  BY <3>1, <3>2
  <2>6. Joins(Q, c, m + 1)
    BY <2>4, <2>5 DEF Joins
  <2> QED  BY <2>6
<1> HIDE DEF S, Has
<1>3. n \in S
  BY <1>1, <1>2, Induction
<1> QED  BY <1>3 DEF S, Has

(* The prefixes depend on the texts alone.                                 *)
LEMMA JoinsAgree ==
    ASSUME NEW n \in Nat, NEW k \in Nat, NEW m \in Nat, m <= n, m <= k,
           NEW c, NEW d, NEW P, NEW Q, Joins(P, c, n), Joins(Q, d, k),
           \A i \in 1 .. m : c[i] = d[i]
    PROVE  P[m] = Q[m]
<1> DEFINE S == {i \in Nat : i <= m => P[i] = Q[i]}
<1>1. 0 \in S
  BY DEF Joins
<1>2. ASSUME NEW i \in Nat, i \in S  PROVE i + 1 \in S
  <2> SUFFICES ASSUME i + 1 <= m  PROVE P[i + 1] = Q[i + 1]
    OBVIOUS
  <2>1. i + 1 \in 1 .. n /\ i + 1 \in 1 .. k /\ i + 1 \in 1 .. m /\ (i + 1) - 1 = i
    OBVIOUS
  <2>2. P[i + 1] = P[i] \o c[i + 1] /\ Q[i + 1] = Q[i] \o d[i + 1]
    <3>1. P[i + 1] = P[(i + 1) - 1] \o c[i + 1] /\ Q[i + 1] = Q[(i + 1) - 1] \o d[i + 1]
      BY <2>1 DEF Joins
    <3> QED  BY <2>1, <3>1
  <2>3. P[i] = Q[i] /\ c[i + 1] = d[i + 1]
    BY <1>2, <2>1
  <2> QED  BY <2>2, <2>3
<1> HIDE DEF S
<1>3. m \in S
  BY <1>1, <1>2, Induction
<1> QED  BY <1>3 DEF S

(* The library's concatenation of a list of texts is that one.             *)
LEMMA FlattenIs ==
    ASSUME NEW c \in Seq(Seq(Nat))
    PROVE  \E P : Joins(P, c, Len(c)) /\ FlattenSeq(c) = P[Len(c)]
<1> DEFINE n == Len(c)
           Eq(F) == F = [i \in 1 .. n |-> IF i = 1 THEN c[i] ELSE F[i - 1] \o c[i]]
           G == CHOOSE F : Eq(F)
<1>1. n \in Nat /\ \A i \in 1 .. n : c[i] \in Seq(Nat)
  BY LenProperties, ElementOfSeq
<1>2. PICK P : Joins(P, c, n)
  BY <1>1, JoinsExists
<1>3. CASE n = 0
  <2>1. c = <<>>
    BY <1>3, EmptySeq
  <2>2. FlattenSeq(c) = c
    BY <1>3 DEF FlattenSeq
  <2>3. P[n] = <<>>
    BY <1>2, <1>3 DEF Joins
  <2> QED  BY <1>2, <2>1, <2>2, <2>3
<1>4. CASE n # 0
  <2>1. FlattenSeq(c) = G[n]
    BY <1>4 DEF FlattenSeq
  <2> DEFINE H == [i \in 1 .. n |-> P[i]]
  <2>2. ASSUME NEW i \in 1 .. n  PROVE H[i] = IF i = 1 THEN c[i] ELSE H[i - 1] \o c[i]
    <3>1. P[i] = P[i - 1] \o c[i] /\ c[i] \in Seq(Nat)
      BY <1>1, <1>2 DEF Joins
    <3>2. CASE i = 1
      <4>1. P[i - 1] = <<>>
        BY <1>2, <3>2 DEF Joins
      <4> QED  BY <3>1, <3>2, <4>1, ConcatEmptySeq
    <3>3. CASE i # 1
      <4>1. i - 1 \in 1 .. n
        BY <1>1, <3>3
      <4> QED  BY <3>1, <3>3, <4>1
    <3> QED  BY <3>2, <3>3
  <2>3. Eq(H)
    <3>1. H = [i \in 1 .. n |-> H[i]]
      OBVIOUS
    <3> HIDE DEF H
    <3> QED  BY <2>2, <3>1
  <2>4. Eq(G)
    <3> HIDE DEF Eq
    <3> QED  BY <2>3
  <2> HIDE DEF G
  <2> DEFINE S == {i \in Nat : i + 1 <= n => G[i + 1] = P[i + 1]}
  <2>5. 0 \in S
    <3>1. 1 \in 1 .. n
      BY <1>1, <1>4
    <3>2. G[1] = c[1] /\ H[1] = c[1] /\ H[1] = P[1]
      BY <2>2, <2>4, <3>1
    <3> QED  BY <3>2
  <2>6. ASSUME NEW i \in Nat, i \in S  PROVE i + 1 \in S
    <3> SUFFICES ASSUME (i + 1) + 1 <= n  PROVE G[(i + 1) + 1] = P[(i + 1) + 1]
      OBVIOUS
    <3> DEFINE m == (i + 1) + 1
    <3>1. m \in 1 .. n /\ m # 1 /\ m - 1 = i + 1
      BY <1>1
    <3>2. G[m] = G[m - 1] \o c[m]
      BY <2>4, <3>1
    <3>3. P[m] = P[m - 1] \o c[m]
      BY <1>2, <3>1 DEF Joins
    <3>4. G[m - 1] = P[m - 1]
      BY <1>1, <2>6, <3>1
    <3> QED  BY <3>2, <3>3, <3>4
  <2> HIDE DEF S
  <2>7. n - 1 \in S
    <3>1. n - 1 \in Nat
      BY <1>1, <1>4
    <3> HIDE DEF n
    <3> QED  BY <2>5, <2>6, <3>1, Induction
  <2>8. G[n] = P[n]
    BY <1>1, <1>4, <2>7 DEF S
  <2> QED  BY <1>2, <2>1, <2>8
<1> QED  BY <1>3, <1>4

(* The first n of the texts c, one after the other.                        *)
FlatTo(c, n) == FlattenSeq([j \in 1 .. n |-> c[j]])

(* Prefix by prefix, a list of texts is put together one text at a time.   *)
LEMMA FlatNext ==
    ASSUME NEW n \in Nat, NEW c, \A i \in 1 .. n : c[i] \in Seq(Nat)
    PROVE  /\ FlatTo(c, 0) = <<>>
           /\ \A m \in 0 .. n : FlatTo(c, m) \in Seq(Nat)
           /\ \A m \in 1 .. n : FlatTo(c, m) = FlatTo(c, m - 1) \o c[m]
<1>1. ASSUME NEW m \in 0 .. n
      PROVE  \E P : Joins(P, c, m) /\ FlatTo(c, m) = P[m]
  <2> DEFINE d == [j \in 1 .. m |-> c[j]]
  <2>1. m \in Nat /\ \A i \in 1 .. m : d[i] = c[i] /\ d[i] \in Seq(Nat)
    OBVIOUS
  <2>2. d \in Seq(Seq(Nat)) /\ Len(d) = m
    BY <2>1
  <2>3. FlatTo(c, m) = FlattenSeq(d)
    BY DEF FlatTo
  <2> HIDE DEF d
  <2>4. PICK P : Joins(P, d, m) /\ FlattenSeq(d) = P[m]
    BY <2>2, FlattenIs
  <2>5. Joins(P, c, m)
    BY <2>1, <2>4 DEF Joins
  <2> QED  BY <2>3, <2>4, <2>5
<1>2. ASSUME NEW m \in 0 .. n  PROVE FlatTo(c, m) \in Seq(Nat)
  <2>1. PICK P : Joins(P, c, m) /\ FlatTo(c, m) = P[m]
    BY <1>1
  <2> QED  BY <2>1 DEF Joins
<1>3. FlatTo(c, 0) = <<>>
  <2>1. PICK P : Joins(P, c, 0) /\ FlatTo(c, 0) = P[0]
    BY <1>1
  <2> QED  BY <2>1 DEF Joins
<1>4. ASSUME NEW m \in 1 .. n  PROVE FlatTo(c, m) = FlatTo(c, m - 1) \o c[m]
  <2>1. m \in 0 .. n /\ m - 1 \in 0 .. n /\ m \in Nat /\ m - 1 \in Nat
    OBVIOUS
  <2>2. PICK P : Joins(P, c, m) /\ FlatTo(c, m) = P[m]
    BY <1>1, <2>1
  <2>3. PICK Q : Joins(Q, c, m - 1) /\ FlatTo(c, m - 1) = Q[m - 1]
    BY <1>1, <2>1
  <2>4. P[m - 1] = Q[m - 1]
    <3> DEFINE k == m - 1
    <3>1. k \in Nat /\ k <= m /\ Joins(Q, c, k)
      BY <2>1, <2>3
    <3> HIDE DEF k
    <3>2. P[k] = Q[k]
      BY <2>1, <2>2, <3>1, JoinsAgree
    <3> QED  BY <3>2 DEF k
  <2>5. P[m] = P[m - 1] \o c[m]
    <3>1. m \in 1 .. m
      BY <2>1
    <3>2. Joins(P, c, m)
      BY <2>2
    <3> QED  BY <3>1, <3>2 DEF Joins
  <2> QED  BY <2>2, <2>3, <2>4, <2>5
<1> QED  BY <1>2, <1>3, <1>4

-------------------------------------------------------------------------------

(* How many of D are no greater than i, and the k-th of D.                 *)
UpTo(D, i) == Cardinality({j \in D : j <= i})
Nth(D, k) == CHOOSE i \in D : UpTo(D, i) = k

(* Counting upwards: the count starts at 0, grows by one at each of D and  *)
(* ends at their number.                                                   *)
LEMMA UpToIs ==
    ASSUME NEW n \in Nat, NEW D, D \subseteq 1 .. n
    PROVE  /\ Cardinality(D) \in Nat
           /\ UpTo(D, 0) = 0 /\ UpTo(D, n) = Cardinality(D)
           /\ \A i \in Nat : UpTo(D, i) \in Nat
           /\ \A i \in Nat : UpTo(D, i + 1) = UpTo(D, i) + (IF i + 1 \in D THEN 1 ELSE 0)
           /\ \A i, j \in Nat : i <= j => UpTo(D, i) <= UpTo(D, j)
           /\ \A i, j \in Nat : i < j /\ j \in D => UpTo(D, i) < UpTo(D, j)
<1> DEFINE B(i) == {j \in D : j <= i}
<1>0. \A j \in D : j \in Nat /\ 1 <= j /\ j <= n
  OBVIOUS
<1>f. IsFiniteSet(D)
  <2>1. IsFiniteSet(1 .. n)
    BY FS_Interval
  <2> QED  BY <2>1, FS_Subset
<1>1. \A i : IsFiniteSet(B(i)) /\ Cardinality(B(i)) \in Nat
  <2> SUFFICES ASSUME NEW i  PROVE IsFiniteSet(B(i)) /\ Cardinality(B(i)) \in Nat
    OBVIOUS
  <2>1. B(i) \subseteq D
    OBVIOUS
  <2> HIDE DEF B
  <2>2. IsFiniteSet(B(i))
    BY <1>f, <2>1, FS_Subset
  <2> QED  BY <2>2, FS_CardinalityType
<1>2. \A i : UpTo(D, i) = Cardinality(B(i))
  BY DEF UpTo
<1>3. ASSUME NEW i \in Nat  PROVE UpTo(D, i + 1) = UpTo(D, i) + (IF i + 1 \in D THEN 1 ELSE 0)
  <2>1. CASE i + 1 \in D
    <3>a. \A j \in D : j <= i + 1 <=> (j <= i \/ j = i + 1)
      BY <1>0
    <3>b. ~(i + 1 <= i)
      OBVIOUS
    <3>1. B(i + 1) = B(i) \cup {i + 1} /\ i + 1 \notin B(i)
      BY <2>1, <3>a, <3>b, i + 1 <= i + 1, Zenon
    <3> HIDE DEF B
    <3>2. Cardinality(B(i + 1)) = Cardinality(B(i)) + 1
      BY <1>1, <3>1, FS_AddElement
    <3> QED  BY <1>2, <2>1, <3>2
  <2>2. CASE i + 1 \notin D
    <3>a. \A j \in D : j <= i + 1 <=> (j <= i \/ j = i + 1)
      BY <1>0
    <3>1. B(i + 1) = B(i)
      BY <2>2, <3>a, Zenon
    <3> HIDE DEF B
    <3>2. UpTo(D, i + 1) = UpTo(D, i) /\ UpTo(D, i) \in Nat
      BY <1>1, <1>2, <3>1
    <3> QED  BY <2>2, <3>2
  <2> QED  BY <2>1, <2>2
<1>4. ASSUME NEW i \in Nat, NEW j \in Nat, i <= j  PROVE UpTo(D, i) <= UpTo(D, j)
  <2>a. \A m \in D : m <= i => m <= j
    BY <1>0, <1>4
  <2>1. B(i) \subseteq B(j)
    BY <2>a, Zenon
  <2> HIDE DEF B
  <2> QED  BY <1>1, <1>2, <2>1, FS_Subset
<1>5. ASSUME NEW i \in Nat, NEW j \in Nat, i < j, j \in D  PROVE UpTo(D, i) < UpTo(D, j)
  <2> DEFINE k == j - 1
  <2>1. k \in Nat /\ i <= k /\ k + 1 = j
    BY <1>5
  <2> HIDE DEF k
  <2>2. UpTo(D, i) <= UpTo(D, k)
    BY <1>4, <2>1
  <2>3. UpTo(D, k + 1) = UpTo(D, k) + 1
    BY <1>3, <1>5, <2>1
  <2>4. UpTo(D, k) \in Nat /\ UpTo(D, i) \in Nat
    BY <1>1, <1>2
  <2> QED  BY <2>1, <2>2, <2>3, <2>4
<1>6. B(0) = {} /\ B(n) = D
  <2>1. \A j \in D : ~(j <= 0) /\ j <= n
    BY <1>0
  <2> QED  BY <2>1, Zenon
<1>7. UpTo(D, 0) = 0 /\ UpTo(D, n) = Cardinality(D)
  BY <1>2, <1>6, FS_EmptySet
<1> HIDE DEF B
<1>8. \A i \in Nat : UpTo(D, i) \in Nat
  BY <1>1, <1>2
<1>9. Cardinality(D) \in Nat
  BY <1>7, <1>8
<1> QED  BY <1>3, <1>4, <1>5, <1>7, <1>8, <1>9

(* For every k up to their number there is a k-th of D.                    *)
LEMMA NthIs ==
    ASSUME NEW n \in Nat, NEW D, D \subseteq 1 .. n, NEW k \in 1 .. Cardinality(D)
    PROVE  Nth(D, k) \in D /\ UpTo(D, Nth(D, k)) = k
<1> DEFINE S == {i \in Nat : UpTo(D, i) < k \/ \E m \in D : UpTo(D, m) = k}
<1>a. Cardinality(D) \in Nat
  BY UpToIs, Zenon
<1>0. k \in Nat /\ k >= 1 /\ k <= Cardinality(D)
  BY <1>a
<1>b. UpTo(D, 0) = 0
  BY UpToIs, Zenon
<1>1. 0 \in S
  BY <1>0, <1>b
<1>2. ASSUME NEW i \in Nat, i \in S  PROVE i + 1 \in S
  <2>1. UpTo(D, i) \in Nat /\ UpTo(D, i + 1) = UpTo(D, i) + (IF i + 1 \in D THEN 1 ELSE 0)
    BY UpToIs, ZenonT(60)
  <2>2. CASE UpTo(D, i) < k /\ i + 1 \in D
    BY <1>0, <2>1, <2>2
  <2>3. CASE UpTo(D, i) < k /\ i + 1 \notin D
    BY <1>0, <2>1, <2>3
  <2> QED  BY <1>2, <2>2, <2>3
<1> HIDE DEF S
<1>3. n \in S
  BY <1>1, <1>2, Induction
<1>4. UpTo(D, n) = Cardinality(D)
  BY UpToIs
<1>5. \E m \in D : UpTo(D, m) = k
  BY <1>a, <1>0, <1>3, <1>4 DEF S
<1> QED  BY <1>5 DEF Nth

(* Nothing of D lies between one of D and the next.                        *)
LEMMA NthNext ==
    ASSUME NEW n \in Nat, NEW D, D \subseteq 1 .. n, NEW k \in 1 .. Cardinality(D),
           NEW j \in D, j < Nth(D, k)
    PROVE  k # 1 /\ j <= Nth(D, k - 1)
<1> DEFINE a == Nth(D, k)
<1>a. a \in D /\ UpTo(D, a) = k
  BY NthIs, Zenon
<1>1. a \in D /\ UpTo(D, a) = k /\ a \in Nat /\ j \in Nat /\ 0 \in Nat /\ 0 < j
  <2> HIDE DEF a
  <2> QED  BY <1>a
<1>b. Cardinality(D) \in Nat
  BY UpToIs, Zenon
<1>2. Cardinality(D) \in Nat /\ k \in Nat /\ k >= 1
  BY <1>b
<1> HIDE DEF a
<1>3. /\ UpTo(D, j) < UpTo(D, a) /\ UpTo(D, 0) < UpTo(D, j) /\ UpTo(D, 0) = 0
      /\ UpTo(D, j) \in Nat
  <2>1. UpTo(D, j) < UpTo(D, a)
    BY <1>1, UpToIs DEF a
  <2>2. UpTo(D, 0) < UpTo(D, j)
    BY <1>1, UpToIs
  <2> QED  BY <1>1, <2>1, <2>2, UpToIs
<1>4. k # 1
  BY <1>1, <1>2, <1>3
<1> DEFINE m == k - 1
           b == Nth(D, m)
<1>5. m \in 1 .. Cardinality(D)
  BY <1>2, <1>4
<1> HIDE DEF m
<1>c. b \in D /\ UpTo(D, b) = m
  BY <1>5, NthIs, Zenon
<1>6. b \in D /\ UpTo(D, b) = m /\ b \in Nat
  <2> HIDE DEF b
  <2> QED  BY <1>c
<1> HIDE DEF b
<1>7. ASSUME b < j  PROVE FALSE
  <2>1. UpTo(D, b) < UpTo(D, j)
    BY <1>1, <1>6, <1>7, UpToIs
  <2>2. m = k - 1
    BY DEF m
  <2> QED  BY <1>1, <1>2, <1>3, <1>6, <2>1, <2>2
<1>8. j <= b
  BY <1>1, <1>6, <1>7
<1> QED  BY <1>4, <1>8 DEF m, b

(* Labels without a dot in them.                                           *)
LabelLists == Seq(Seq(Nat))
Dotless(L) == \A i \in 1 .. Len(L) : \A j \in 1 .. Len(L[i]) : L[i][j] # Dot

(* Labels in ASCII.                                                        *)
AsciiLabels(L) == \A i \in 1 .. Len(L) : \A j \in 1 .. Len(L[i]) : L[i][j] < 128

(* The texts between the dots have no dot in them, and nothing that the    *)
(* whole has not.                                                          *)
LEMMA LabelsOfIs ==
    ASSUME NEW d \in Seq(Nat)
    PROVE  LabelsOf(d) \in LabelLists /\ Dotless(LabelsOf(d)) /\ (IsAscii(d) => AsciiLabels(LabelsOf(d)))
<1> DEFINE n == Len(d)
           D == {i \in DOMAIN d : d[i] = Dot}
           N == Cardinality(D)
           from(k) == IF k = 1 THEN 1 ELSE Nth(D, k - 1) + 1
           to(k) == Nth(D, k) - 1
           L == [k \in 1 .. N |-> SubSeq(d, from(k), to(k))]
<1>1. LabelsOf(d) = L
  BY DEF LabelsOf, Nth, UpTo
<1>2. n \in Nat /\ DOMAIN d = 1 .. n /\ \A i \in 1 .. n : d[i] \in Nat
  BY LenProperties, ElementOfSeq
<1>3. D \subseteq 1 .. n /\ \A i \in 1 .. n : d[i] = Dot <=> i \in D
  BY <1>2
<1> HIDE DEF D, n
<1>4. N \in Nat
  BY <1>2, <1>3, UpToIs
<1>5. ASSUME NEW k \in 1 .. N
      PROVE  /\ from(k) \in Nat /\ to(k) \in Nat /\ from(k) >= 1 /\ to(k) <= n
             /\ \A i \in from(k) .. to(k) : i \in 1 .. n /\ i \notin D
  <2>1. Nth(D, k) \in D
    BY <1>2, <1>3, NthIs
  <2>2. Nth(D, k) \in 1 .. n
    BY <1>3, <2>1
  <2>3. k # 1 => k - 1 \in 1 .. N
    BY <1>4
  <2>4. k # 1 => Nth(D, k - 1) \in D
    <3> SUFFICES ASSUME k # 1  PROVE Nth(D, k - 1) \in D
      OBVIOUS
    <3> DEFINE m == k - 1
    <3>1. m \in 1 .. N
      BY <2>3
    <3> HIDE DEF m
    <3>2. Nth(D, m) \in D
      BY <1>2, <1>3, <3>1, NthIs
    <3> QED  BY <3>2 DEF m
  <2>5. k # 1 => Nth(D, k - 1) \in 1 .. n
    BY <1>3, <2>4
  <2>6. from(k) \in Nat /\ to(k) \in Nat /\ from(k) >= 1 /\ to(k) <= n
    BY <1>2, <2>2, <2>5
  <2>7. ASSUME NEW i \in from(k) .. to(k)  PROVE i \in 1 .. n /\ i \notin D
    <3>1. i \in 1 .. n /\ i < Nth(D, k)
      BY <1>2, <2>2, <2>6
    <3>2. ASSUME i \in D  PROVE FALSE
      <4>1. k # 1 /\ i <= Nth(D, k - 1)
        BY <1>2, <1>3, <3>1, <3>2, NthNext
      <4> QED  BY <2>5, <4>1
    <3> QED  BY <3>1, <3>2
  <2> QED  BY <2>6, <2>7
<1> HIDE DEF from, to, N
<1>6. ASSUME NEW k \in 1 .. N
      PROVE  /\ L[k] \in Seq(Nat)
             /\ \A j \in 1 .. Len(L[k]) : L[k][j] # Dot /\ (IsAscii(d) => L[k][j] < 128)
  <2> DEFINE a == from(k)
             b == to(k)
  <2>1. a \in Int /\ b \in Int /\ \A i \in a .. b : d[i] \in Nat /\ d[i] # Dot /\ i \in DOMAIN d
    BY <1>2, <1>3, <1>5
  <2>2. L[k] = SubSeq(d, a, b)
    OBVIOUS
  <2> HIDE DEF a, b, L
  <2>3. /\ L[k] \in Seq(Nat) /\ Len(L[k]) = IF a <= b THEN b - a + 1 ELSE 0
        /\ \A i \in 1 .. b - a + 1 : L[k][i] = d[a + i - 1]
    BY <2>1, <2>2, SubSeqProperties
  <2>4. ASSUME NEW j \in 1 .. Len(L[k])  PROVE L[k][j] # Dot /\ (IsAscii(d) => L[k][j] < 128)
    <3>1. j \in 1 .. b - a + 1 /\ a + j - 1 \in a .. b
      BY <2>1, <2>3
    <3>2. L[k][j] = d[a + j - 1] /\ d[a + j - 1] # Dot /\ a + j - 1 \in DOMAIN d
      BY <2>1, <2>3, <3>1
    <3> QED  BY <3>2 DEF IsAscii
  <2> QED  BY <2>3, <2>4
<1>7. L \in Seq(Seq(Nat)) /\ Len(L) = N
  <2>1. \A k \in 1 .. N : L[k] \in Seq(Nat)
    BY <1>6
  <2>2. L = [k \in 1 .. N |-> L[k]]
    OBVIOUS
  <2> HIDE DEF L
  <2> QED  BY <1>4, <2>1, <2>2
<1> HIDE DEF L
<1> QED  BY <1>1, <1>6, <1>7 DEF LabelLists, Dotless, AsciiLabels

(* A bounded set of numbers has its least and its greatest.                *)
LEMMA Ends ==
    ASSUME NEW n \in Nat, NEW K, K \subseteq 1 .. n, K # {}
    PROVE  /\ Min(K) \in K /\ \A y \in K : Min(K) <= y
           /\ Max(K) \in K /\ \A y \in K : Max(K) >= y
<1>0. \A y \in K : y \in Nat /\ 1 <= y /\ y <= n
  OBVIOUS
<1>1. \E x \in K : \A y \in K : x <= y
  <2> SUFFICES ASSUME \A x \in K : \E y \in K : ~(x <= y)  PROVE FALSE
    OBVIOUS
  <2> DEFINE S == {i \in Nat : \A y \in K : i <= y}
  <2>1. 0 \in S
    BY <1>0
  <2>2. ASSUME NEW i \in Nat, i \in S  PROVE i + 1 \in S
    <3>1. ASSUME NEW y \in K  PROVE i + 1 <= y
      <4>1. i <= y /\ y \in Nat
        BY <1>0, <2>2
      <4>2. i # y
        BY <2>2
      <4> QED  BY <4>1, <4>2
    <3> QED  BY <3>1
  <2> HIDE DEF S
  <2>3. n + 1 \in S
    BY <2>1, <2>2, Induction
  <2>4. PICK y \in K : TRUE
    OBVIOUS
  <2>5. n + 1 <= y /\ y \in Nat /\ y <= n
    BY <1>0, <2>3 DEF S
  <2> QED  BY <2>5
<1>2. \E x \in K : \A y \in K : x >= y
  <2> SUFFICES ASSUME \A x \in K : \E y \in K : ~(x >= y)  PROVE FALSE
    OBVIOUS
  <2> DEFINE S == {i \in Nat : \A y \in K : i + y <= n}
  <2>1. 0 \in S
    BY <1>0
  <2>2. ASSUME NEW i \in Nat, i \in S  PROVE i + 1 \in S
    <3>1. ASSUME NEW x \in K  PROVE (i + 1) + x <= n
      <4>1. PICK y \in K : ~(x >= y)
        OBVIOUS
      <4>2. i + y <= n /\ x \in Nat /\ y \in Nat
        BY <1>0, <2>2
      <4> QED  BY <4>1, <4>2
    <3> QED  BY <3>1
  <2> HIDE DEF S
  <2>3. n + 1 \in S
    BY <2>1, <2>2, Induction
  <2>4. PICK y \in K : TRUE
    OBVIOUS
  <2>5. (n + 1) + y <= n /\ y \in Nat
    BY <1>0, <2>3 DEF S
  <2> QED  BY <2>5
<1> QED  BY <1>1, <1>2 DEF Min, Max

(* A text without the spaces around it is a text.                          *)
LEMMA TrimSpaceType ==
    ASSUME NEW text \in Seq(Nat)
    PROVE  TrimSpace(text) \in Seq(Nat) /\ (IsAscii(text) => IsAscii(TrimSpace(text)))
<1> DEFINE kept == {i \in DOMAIN text : ~Blank(text, i)}
           n == Len(text)
<1>1. n \in Nat /\ DOMAIN text = 1 .. n /\ \A i \in 1 .. n : text[i] \in Nat
  BY LenProperties, ElementOfSeq
<1>2. CASE kept = {}
  BY <1>2, EmptySeq DEF TrimSpace, IsAscii
<1>3. CASE kept # {}
  <2>1. kept \subseteq 1 .. n
    BY <1>1
  <2>2. TrimSpace(text) = SubSeq(text, Min(kept), Max(kept))
    BY <1>3 DEF TrimSpace
  <2> HIDE DEF kept
  <2>3. Min(kept) \in kept /\ Max(kept) \in kept
    <3>1. kept # {}
      BY <1>3
    <3> QED  BY <1>1, <2>1, <3>1, Ends
  <2> DEFINE a == Min(kept)
             b == Max(kept)
  <2>4. a \in 1 .. n /\ b \in 1 .. n
    BY <2>1, <2>3
  <2>6. a \in Int /\ b \in Int /\ \A i \in a .. b : text[i] \in Nat
    BY <1>1, <2>4
  <2> HIDE DEF a, b
  <2> DEFINE t == SubSeq(text, a, b)
  <2>5. t \in Seq(Nat) /\ Len(t) = (IF a <= b THEN b - a + 1 ELSE 0) /\ \A i \in 1 .. b - a + 1 : t[i] = text[a + i - 1]
    BY <2>6, SubSeqProperties
  <2> HIDE DEF t
  <2>7. ASSUME IsAscii(text)  PROVE IsAscii(t)
    <3> SUFFICES ASSUME NEW i \in 1 .. Len(t)  PROVE t[i] < 128
      BY <2>5, LenProperties DEF IsAscii
    <3>1. i \in 1 .. b - a + 1 /\ a + i - 1 \in 1 .. n
      BY <1>1, <2>4, <2>5
    <3> QED  BY <1>1, <2>5, <2>7, <3>1 DEF IsAscii
  <2> QED  BY <2>2, <2>5, <2>7 DEF a, b, t
<1> QED  BY <1>2, <1>3

(* The labels of a name, whatever its text, are texts without dots.        *)
LEMMA SplitQNameIs ==
    ASSUME NEW text \in Seq(Nat)
    PROVE  /\ SplitQName(text) \in LabelLists /\ Dotless(SplitQName(text))
           /\ IsAscii(text) => AsciiLabels(SplitQName(text))
<1> DEFINE name == TrimSpace(text)
<1>1. name \in Seq(Nat) /\ (IsAscii(text) => IsAscii(name))
  BY TrimSpaceType
<1>2. Append(name, Dot) \in Seq(Nat) /\ (IsAscii(text) => IsAscii(Append(name, Dot)))
  <2> HIDE DEF name
  <2>1. /\ Append(name, Dot) \in Seq(Nat) /\ Len(Append(name, Dot)) = Len(name) + 1 /\ Len(name) \in Nat
        /\ Append(name, Dot)[Len(name) + 1] = Dot /\ \A i \in 1 .. Len(name) : Append(name, Dot)[i] = name[i]
    BY <1>1, AppendProperties, LenProperties DEF Dot
  <2>2. ASSUME IsAscii(name)  PROVE IsAscii(Append(name, Dot))
    <3>1. DOMAIN name = 1 .. Len(name) /\ DOMAIN Append(name, Dot) = 1 .. Len(name) + 1
      BY <1>1, <2>1, LenProperties
    <3> QED  BY <2>1, <2>2, <3>1 DEF IsAscii, Dot
  <2> QED  BY <1>1, <2>1, <2>2
<1>3. <<>> \in LabelLists /\ Dotless(<<>>) /\ AsciiLabels(<<>>)
  BY EmptySeq DEF LabelLists, Dotless, AsciiLabels
<1>4. SplitQName(text) \in {<<>>, LabelsOf(name), LabelsOf(Append(name, Dot))}
  BY DEF SplitQName
<1> HIDE DEF name
<1> QED  BY <1>1, <1>2, <1>3, <1>4, LabelsOfIs

-------------------------------------------------------------------------------

(* The text of labels, each with its dot.                                  *)
Dotted(L) == FlattenSeq([i \in DOMAIN L |-> L[i] \o <<Dot>>])

(* The types of texts and their concatenations.                            *)
LEMMA TextTypes ==
    /\ <<>> \in Seq(Nat) /\ Len(<<>>) = 0
    /\ \A c \in Nat : <<c>> \in Seq(Nat) /\ Len(<<c>>) = 1 /\ <<c>>[1] = c
    /\ \A s \in Seq(Nat) : Len(s) \in Nat /\ \A i \in 1 .. Len(s) : s[i] \in Nat
    /\ \A s, t \in Seq(Nat) : s \o t \in Seq(Nat) /\ Len(s \o t) = Len(s) + Len(t)
    /\ Dot \in Nat
<1>1. \A s, t \in Seq(Nat) : s \o t \in Seq(Nat) /\ Len(s \o t) = Len(s) + Len(t)
  BY ConcatProperties
<1>2. \A s \in Seq(Nat) : Len(s) \in Nat /\ \A i \in 1 .. Len(s) : s[i] \in Nat
  BY LenProperties, ElementOfSeq
<1>3. \A c \in Nat : <<c>> \in Seq(Nat) /\ Len(<<c>>) = 1 /\ <<c>>[1] = c
  OBVIOUS
<1> QED  BY <1>1, <1>2, <1>3, EmptySeq DEF Dot

(* The types of lists of labels.                                           *)
LEMMA LabelListTypes ==
    /\ <<>> \in LabelLists /\ Len(<<>>) = 0
    /\ \A L \in LabelLists : Len(L) \in Nat /\ DOMAIN L = 1 .. Len(L) /\ \A i \in 1 .. Len(L) : L[i] \in Seq(Nat)
    /\ \A L \in LabelLists : Len(L) = 0 <=> L = <<>>
BY LenProperties, ElementOfSeq, EmptySeq DEF LabelLists

(* One more label adds its text and a dot.                                 *)
LEMMA DottedNext ==
    ASSUME NEW L \in LabelLists
    PROVE  /\ Dotted(L) \in Seq(Nat)
           /\ L = <<>> => Dotted(L) = <<>>
           /\ \A l \in Seq(Nat) : Dotted(Append(L, l)) = Dotted(L) \o (l \o <<Dot>>)
<1> DEFINE n == Len(L)
           c == [i \in DOMAIN L |-> L[i] \o <<Dot>>]
<1>1. n \in Nat /\ DOMAIN L = 1 .. n /\ \A i \in 1 .. n : L[i] \in Seq(Nat)
  BY LabelListTypes
<1>2. \A i \in 1 .. n : c[i] = L[i] \o <<Dot>> /\ c[i] \in Seq(Nat)
  BY <1>1, TextTypes
<1>3. c = [i \in 1 .. n |-> c[i]]
  BY <1>1
<1>4. Dotted(L) = FlattenSeq(c)
  BY DEF Dotted
<1> HIDE DEF c, n
<1>5. Dotted(L) = FlatTo(c, n)
  BY <1>3, <1>4 DEF FlatTo
<1>6. Dotted(L) \in Seq(Nat)
  <2>1. n \in 0 .. n /\ n \in Nat
    BY <1>1
  <2>2. FlatTo(c, n) \in Seq(Nat)
    BY <1>2, <2>1, FlatNext
  <2> QED  BY <1>5, <2>2
<1>7. L = <<>> => Dotted(L) = <<>>
  <2>1. L = <<>> => n = 0
    BY LabelListTypes DEF n
  <2>2. FlatTo(c, 0) = <<>>
    BY <1>1, <1>2, FlatNext
  <2> QED  BY <1>5, <2>1, <2>2
<1>8. ASSUME NEW l \in Seq(Nat)  PROVE Dotted(Append(L, l)) = Dotted(L) \o (l \o <<Dot>>)
  <2> DEFINE M == Append(L, l)
             d == [i \in DOMAIN M |-> M[i] \o <<Dot>>]
             m == n + 1
  <2>1. /\ M \in Seq(Seq(Nat)) /\ Len(M) = m /\ M[m] = l
        /\ \A i \in 1 .. n : M[i] = L[i]
    BY AppendProperties DEF LabelLists, n
  <2>2. DOMAIN M = 1 .. m
    BY <2>1, LenProperties
  <2> HIDE DEF M
  <2>3. Dotted(M) = FlattenSeq(d) /\ d = [i \in 1 .. m |-> d[i]]
    BY <2>2 DEF Dotted
  <2>4. ASSUME NEW i \in 1 .. m  PROVE d[i] \in Seq(Nat)
    <3>1. M[i] \in Seq(Nat)
      BY <2>1, ElementOfSeq
    <3> QED  BY <2>2, <3>1, TextTypes
  <2>5. \A i \in 1 .. n : d[i] = c[i]
    <3> SUFFICES ASSUME NEW i \in 1 .. n  PROVE d[i] = c[i]
      OBVIOUS
    <3>1. i \in 1 .. m /\ M[i] = L[i]
      BY <1>1, <2>1
    <3>2. d[i] = M[i] \o <<Dot>>
      BY <2>2, <3>1
    <3> QED  BY <1>2, <3>1, <3>2
  <2>6. d[m] = l \o <<Dot>>
    BY <1>1, <2>1, <2>2
  <2> HIDE DEF d
  <2>7. Dotted(M) = FlatTo(d, m)
    BY <2>3 DEF FlatTo
  <2>8. m \in Nat /\ m \in 1 .. m /\ m - 1 = n
    BY <1>1
  <2> HIDE DEF m
  <2>9. FlatTo(d, m) = FlatTo(d, m - 1) \o d[m]
    BY <2>4, <2>8, FlatNext
  <2>10. [j \in 1 .. n |-> d[j]] = [j \in 1 .. n |-> c[j]]
    BY <2>5
  <2>11. FlatTo(d, n) = FlatTo(c, n)
    BY <2>10 DEF FlatTo
  <2> QED  BY <1>5, <2>6, <2>7, <2>8, <2>9, <2>11 DEF M
<1> QED  BY <1>6, <1>7, <1>8

(* The labels before the last one.                                         *)
LEMMA FrontIs ==
    ASSUME NEW L \in LabelLists, NEW n \in Nat, Len(L) = n + 1
    PROVE  /\ Front(L) \in LabelLists /\ Len(Front(L)) = n
           /\ L = Append(Front(L), L[n + 1]) /\ L[n + 1] \in Seq(Nat)
           /\ \A i \in 1 .. n : Front(L)[i] = L[i]
<1>0. L \in Seq(Seq(Nat)) /\ \A i \in 1 .. n + 1 : L[i] \in Seq(Nat)
  BY LabelListTypes DEF LabelLists
<1>1. Front(L) = SubSeq(L, 1, n)
  <2>1. Len(L) - 1 = n
    OBVIOUS
  <2> QED  BY <2>1 DEF Front
<1>2. \A i \in 1 .. n : L[i] \in Seq(Nat)
  BY <1>0
<1>3. SubSeq(L, 1, n) \in Seq(Seq(Nat)) /\ Len(SubSeq(L, 1, n)) = n /\ \A i \in 1 .. n : SubSeq(L, 1, n)[i] = L[i]
  BY <1>2, SubSeqProperties
<1> DEFINE F == SubSeq(L, 1, n)
           M == Append(F, L[n + 1])
<1>4. L[n + 1] \in Seq(Nat)
  BY <1>0
<1>5. M \in Seq(Seq(Nat)) /\ Len(M) = n + 1 /\ M[n + 1] = L[n + 1] /\ \A i \in 1 .. n : M[i] = L[i]
  <2> HIDE DEF F
  <2>1. F \in Seq(Seq(Nat)) /\ Len(F) = n /\ \A i \in 1 .. n : F[i] = L[i]
    BY <1>3 DEF F
  <2> QED  BY <1>4, <2>1, AppendProperties
<1> HIDE DEF M
<1>6. \A i \in 1 .. n + 1 : M[i] = L[i]
  BY <1>5
<1>7. M = L
  BY <1>0, <1>5, <1>6, SeqEqual
<1> QED  BY <1>0, <1>1, <1>3, <1>4, <1>7 DEF M, LabelLists

(* The last cell of a part of a text, put after the others.                *)
LEMMA SubSeqJoin ==
    ASSUME NEW d \in Seq(Nat), NEW a \in Nat, NEW b \in Nat, a < b, b <= Len(d)
    PROVE  SubSeq(d, 1, a) \o (SubSeq(d, a + 1, b - 1) \o <<d[b]>>) = SubSeq(d, 1, b)
<1> DEFINE n == Len(d)
           p == SubSeq(d, 1, a)
           q == SubSeq(d, a + 1, b - 1)
           z == <<d[b]>>
           u == q \o z
           v == p \o u
           x == SubSeq(d, 1, b)
<1>0. n \in Nat /\ \A i \in 1 .. n : d[i] \in Nat
  BY LenProperties, ElementOfSeq
<1>1. p \in Seq(Nat) /\ Len(p) = a /\ \A i \in 1 .. a : p[i] = d[i]
  <2>1. \A i \in 1 .. a : d[i] \in Nat
    BY <1>0
  <2>2. p \in Seq(Nat) /\ Len(p) = (IF 1 <= a THEN a - 1 + 1 ELSE 0) /\ \A i \in 1 .. a - 1 + 1 : p[i] = d[1 + i - 1]
    BY <2>1, SubSeqProperties
  <2> HIDE DEF p
  <2> QED  BY <2>2
<1>2. q \in Seq(Nat) /\ Len(q) = (b - a) - 1 /\ \A i \in 1 .. (b - a) - 1 : q[i] = d[a + i]
  <2>1. \A i \in a + 1 .. b - 1 : d[i] \in Nat
    BY <1>0
  <2>2. /\ q \in Seq(Nat) /\ Len(q) = (IF a + 1 <= b - 1 THEN (b - 1) - (a + 1) + 1 ELSE 0)
        /\ \A i \in 1 .. (b - 1) - (a + 1) + 1 : q[i] = d[(a + 1) + i - 1]
    BY <2>1, SubSeqProperties
  <2> HIDE DEF q
  <2> QED  BY <2>2
<1>3. z \in Seq(Nat) /\ Len(z) = 1 /\ z[1] = d[b]
  BY <1>0
<1>4. x \in Seq(Nat) /\ Len(x) = b /\ \A i \in 1 .. b : x[i] = d[i]
  <2>1. \A i \in 1 .. b : d[i] \in Nat
    BY <1>0
  <2>2. x \in Seq(Nat) /\ Len(x) = (IF 1 <= b THEN b - 1 + 1 ELSE 0) /\ \A i \in 1 .. b - 1 + 1 : x[i] = d[1 + i - 1]
    BY <2>1, SubSeqProperties
  <2> HIDE DEF x
  <2> QED  BY <2>2
<1> HIDE DEF p, q, z, x
<1>5. u \in Seq(Nat) /\ Len(u) = b - a /\ \A i \in 1 .. b - a : u[i] = d[a + i]
  <2>1. /\ u \in Seq(Nat) /\ Len(u) = Len(q) + Len(z)
        /\ \A i \in 1 .. Len(q) + Len(z) : u[i] = IF i <= Len(q) THEN q[i] ELSE z[i - Len(q)]
    BY <1>2, <1>3, ConcatProperties
  <2> HIDE DEF u
  <2> SUFFICES ASSUME NEW i \in 1 .. b - a  PROVE u[i] = d[a + i]
    BY <1>2, <1>3, <2>1
  <2>2. CASE i <= Len(q)
    BY <1>2, <1>3, <2>1, <2>2
  <2>3. CASE ~(i <= Len(q))
    <3>1. i - Len(q) = 1 /\ a + i = b /\ i \in 1 .. Len(q) + Len(z)
      BY <1>2, <1>3, <2>3
    <3>2. u[i] = z[1]
      BY <2>1, <2>3, <3>1
    <3> QED  BY <1>3, <3>1, <3>2
  <2> QED  BY <2>2, <2>3
<1> HIDE DEF u
<1>6. v \in Seq(Nat) /\ Len(v) = b /\ \A i \in 1 .. b : v[i] = d[i]
  <2>1. /\ v \in Seq(Nat) /\ Len(v) = Len(p) + Len(u)
        /\ \A i \in 1 .. Len(p) + Len(u) : v[i] = IF i <= Len(p) THEN p[i] ELSE u[i - Len(p)]
    <3>1. p \in Seq(Nat) /\ u \in Seq(Nat)
      BY <1>1, <1>5
    <3> QED  BY <3>1, ConcatProperties
  <2> HIDE DEF v
  <2> SUFFICES ASSUME NEW i \in 1 .. b  PROVE v[i] = d[i]
    BY <1>1, <1>5, <2>1
  <2>i. i \in 1 .. Len(p) + Len(u)
    BY <1>1, <1>5
  <2>2. CASE i <= a
    <3>1. v[i] = p[i] /\ i \in 1 .. a
      BY <1>1, <2>1, <2>2, <2>i
    <3> QED  BY <1>1, <3>1
  <2>3. CASE ~(i <= a)
    <3>1. i - a \in 1 .. b - a /\ a + (i - a) = i
      BY <2>3
    <3>2. v[i] = u[i - a]
      BY <1>1, <2>1, <2>3, <2>i
    <3> QED  BY <1>5, <3>1, <3>2
  <2> QED  BY <2>2, <2>3
<1> HIDE DEF v
<1>7. v = x
  BY <1>4, <1>6, SeqEqual
<1> QED  BY <1>7 DEF v, u, p, q, z, x

(* The labels of a text that ends in a dot, put together again, are that   *)
(* text.                                                                   *)
LEMMA LabelsJoin ==
    ASSUME NEW d \in Seq(Nat), d # <<>>, d[Len(d)] = Dot
    PROVE  LabelsOf(d) # <<>> /\ Dotted(LabelsOf(d)) = d
<1> DEFINE n == Len(d)
           D == {i \in DOMAIN d : d[i] = Dot}
           N == Cardinality(D)
           E(k) == IF k = 0 THEN 0 ELSE Nth(D, k)
           L == LabelsOf(d)
           c == [k \in DOMAIN L |-> L[k] \o <<Dot>>]
<1>1. L = [k \in 1 .. N |-> SubSeq(d, IF k = 1 THEN 1 ELSE Nth(D, k - 1) + 1, Nth(D, k) - 1)]
  BY DEF LabelsOf, Nth, UpTo
<1>2. n \in Nat /\ n # 0 /\ DOMAIN d = 1 .. n /\ \A i \in 1 .. n : d[i] \in Nat
  BY LenProperties, ElementOfSeq, EmptySeq
<1>3. D \subseteq 1 .. n /\ n \in D /\ \A i \in D : d[i] = Dot
  BY <1>2
<1>l. L \in LabelLists
  BY LabelsOfIs
<1> HIDE DEF D, n
<1>4. N \in Nat /\ UpTo(D, 0) = 0 /\ UpTo(D, n) = N
  BY <1>2, <1>3, UpToIs
<1>u. \A i, j \in Nat : i <= j => UpTo(D, i) <= UpTo(D, j)
  BY <1>2, <1>3, UpToIs
<1>v. \A i, j \in Nat : i < j /\ j \in D => UpTo(D, i) < UpTo(D, j)
  BY <1>2, <1>3, UpToIs
<1>5. N # 0
  <2>1. UpTo(D, 0) < UpTo(D, n)
    BY <1>2, <1>3, <1>v
  <2> QED  BY <1>4, <2>1
<1>6. ASSUME NEW k \in 0 .. N  PROVE E(k) \in Nat /\ UpTo(D, E(k)) = k /\ (k # 0 => E(k) \in D /\ E(k) <= n)
  <2>1. CASE k = 0
    BY <1>4, <2>1
  <2>2. CASE k # 0
    <3>1. k \in 1 .. N
      BY <1>4, <2>2
    <3>2. Nth(D, k) \in D /\ UpTo(D, Nth(D, k)) = k
      BY <1>2, <1>3, <3>1, NthIs
    <3>3. Nth(D, k) \in 1 .. n
      BY <1>3, <3>2
    <3> QED  BY <1>2, <2>2, <3>2, <3>3
  <2> QED  BY <2>1, <2>2
<1>7. E(N) = n
  <2>1. N \in 0 .. N
    BY <1>4
  <2>2. E(N) \in Nat /\ UpTo(D, E(N)) = N /\ E(N) <= n
    BY <1>5, <1>6, <2>1
  <2> HIDE DEF E
  <2>3. ~(E(N) < n)
    <3>1. E(N) < n => UpTo(D, E(N)) < UpTo(D, n)
      BY <1>2, <1>3, <1>v, <2>2
    <3> QED  BY <1>4, <2>2, <3>1
  <2> QED  BY <1>2, <2>2, <2>3
<1>8. DOMAIN L = 1 .. N /\ \A k \in 1 .. N : L[k] = SubSeq(d, E(k - 1) + 1, E(k) - 1)
  <2>1. ASSUME NEW k \in 1 .. N  PROVE L[k] = SubSeq(d, E(k - 1) + 1, E(k) - 1)
    <3>1. L[k] = SubSeq(d, IF k = 1 THEN 1 ELSE Nth(D, k - 1) + 1, Nth(D, k) - 1)
      BY <1>1
    <3>2. CASE k = 1
      <4>1. E(k - 1) + 1 = 1 /\ E(k) = Nth(D, k)
        BY <3>2
      <4> QED  BY <3>1, <3>2, <4>1
    <3>3. CASE k # 1
      <4>1. E(k - 1) = Nth(D, k - 1) /\ E(k) = Nth(D, k)
        BY <1>4, <3>3
      <4> QED  BY <3>1, <3>3, <4>1
    <3> QED  BY <3>2, <3>3
  <2>2. DOMAIN L = 1 .. N
    BY <1>1
  <2> QED  BY <2>1, <2>2
<1>9. Len(L) = N /\ \A k \in 1 .. N : L[k] \in Seq(Nat)
  <2>1. Len(L) \in Nat /\ DOMAIN L = 1 .. Len(L) /\ \A k \in DOMAIN L : L[k] \in Seq(Nat)
    BY <1>l, LabelListTypes
  <2>2. 1 .. Len(L) = 1 .. N
    BY <1>8, <2>1
  <2> HIDE DEF L, N
  <2>3. Len(L) = N
    <3>0. \A l, m \in Nat : 1 .. l = 1 .. m => ~(l < m) /\ ~(m < l)
      <4> SUFFICES ASSUME NEW l \in Nat, NEW m \in Nat, 1 .. l = 1 .. m  PROVE ~(l < m) /\ ~(m < l)
        OBVIOUS
      <4>1. ASSUME l < m  PROVE FALSE
        <5>1. m \in 1 .. m /\ m \notin 1 .. l
          BY <4>1
        <5> QED  BY <5>1
      <4>2. ASSUME m < l  PROVE FALSE
        <5>1. l \in 1 .. l /\ l \notin 1 .. m
          BY <4>2
        <5> QED  BY <5>1
      <4> QED  BY <4>1, <4>2
    <3>1. ~(Len(L) < N) /\ ~(N < Len(L))
      BY <1>4, <2>1, <2>2, <3>0
    <3>2. \A l, m \in Nat : l < m \/ m < l \/ l = m
      OBVIOUS
    <3> QED  BY <1>4, <2>1, <3>1, <3>2, Zenon
  <2> QED  BY <1>8, <2>1, <2>3
<1>c. c = [k \in 1 .. N |-> c[k]] /\ \A k \in 1 .. N : c[k] = L[k] \o <<Dot>> /\ c[k] \in Seq(Nat)
  BY <1>8, <1>9, TextTypes
<1>d. Dotted(L) = FlatTo(c, N)
  BY <1>c DEF Dotted, FlatTo
<1> HIDE DEF c, E, L, N
<1>10. FlatTo(c, 0) = <<>> /\ \A k \in 1 .. N : FlatTo(c, k) = FlatTo(c, k - 1) \o c[k]
  BY <1>4, <1>c, FlatNext
<1> DEFINE S == {k \in Nat : k <= N => FlatTo(c, k) = SubSeq(d, 1, E(k))}
<1>11. 0 \in S
  <2>1. E(0) = 0
    BY DEF E
  <2>2. SubSeq(d, 1, 0) = <<>>
    <3>1. \A i \in 1 .. 0 : d[i] \in Nat
      OBVIOUS
    <3>2. SubSeq(d, 1, 0) \in Seq(Nat) /\ Len(SubSeq(d, 1, 0)) = 0
      BY <3>1, SubSeqProperties
    <3> QED  BY <3>2, EmptySeq
  <2> QED  BY <1>10, <2>1, <2>2
<1>12. ASSUME NEW k \in Nat, k \in S  PROVE k + 1 \in S
  <2> SUFFICES ASSUME k + 1 <= N  PROVE FlatTo(c, k + 1) = SubSeq(d, 1, E(k + 1))
    OBVIOUS
  <2>1. k + 1 \in 1 .. N /\ (k + 1) - 1 = k /\ k \in 0 .. N /\ k + 1 \in 0 .. N /\ k <= N /\ k + 1 # 0
    BY <1>4
  <2> DEFINE a == E(k)
             b == E(k + 1)
  <2>2. a \in Nat /\ b \in Nat /\ UpTo(D, a) = k /\ UpTo(D, b) = k + 1 /\ b \in D /\ b <= n
    BY <1>6, <2>1
  <2>3. L[k + 1] = SubSeq(d, a + 1, b - 1) /\ c[k + 1] = L[k + 1] \o <<Dot>>
    BY <1>8, <1>c, <2>1
  <2>4. FlatTo(c, k + 1) = FlatTo(c, k) \o c[k + 1] /\ FlatTo(c, k) = SubSeq(d, 1, a)
    BY <1>10, <1>12, <2>1
  <2> HIDE DEF a, b
  <2>5. a < b
    <3>1. b <= a => UpTo(D, b) <= UpTo(D, a)
      BY <1>u, <2>2
    <3> QED  BY <2>2, <3>1
  <2>6. d[b] = Dot
    BY <1>3, <2>2
  <2>7. SubSeq(d, 1, a) \o (SubSeq(d, a + 1, b - 1) \o <<d[b]>>) = SubSeq(d, 1, b)
    BY <2>2, <2>5, SubSeqJoin DEF n
  <2> QED  BY <2>3, <2>4, <2>6, <2>7 DEF b
<1> HIDE DEF S
<1>13. N \in S
  BY <1>4, <1>11, <1>12, Induction
<1>14. FlatTo(c, N) = SubSeq(d, 1, n)
  BY <1>4, <1>7, <1>13 DEF S
<1>15. SubSeq(d, 1, n) = d
  <2> DEFINE x == SubSeq(d, 1, n)
  <2>1. x \in Seq(Nat) /\ Len(x) = (IF 1 <= n THEN n - 1 + 1 ELSE 0) /\ \A i \in 1 .. n - 1 + 1 : x[i] = d[1 + i - 1]
    BY <1>2, SubSeqProperties
  <2> HIDE DEF x
  <2>2. Len(x) = n /\ \A i \in 1 .. n : x[i] = d[i]
    BY <1>2, <2>1
  <2>3. x = d
    BY <2>1, <2>2, SeqEqual DEF n
  <2> QED  BY <2>3 DEF x
<1>16. L # <<>>
  BY <1>4, <1>5, <1>9, EmptySeq
<1> QED  BY <1>14, <1>15, <1>16, <1>d DEF L

(* A name without blanks at its ends, cut into labels and put together     *)
(* again, is that name with its last dot.                                  *)
LEMMA NameIsKept ==
    ASSUME NEW text \in Seq(Nat), ~BlankEnds(text)
    PROVE  Join(SplitQName(text)) = Qualified(text)
<1>1. TrimSpace(text) = text
  BY DEF BlankEnds
<1>2. Len(text) \in Nat /\ (text = <<>> <=> Len(text) = 0)
  BY LenProperties, EmptySeq
<1>3. CASE text = <<>>
  <2>1. SplitQName(text) = <<>>
    BY <1>1, <1>3 DEF SplitQName
  <2>2. Append(text, Dot) = <<Dot>>
    BY <1>3
  <2> QED  BY <1>3, <2>1, <2>2 DEF Join, Qualified
<1>4. CASE text = <<Dot>>
  <2>1. SplitQName(text) = <<>>
    BY <1>1, <1>4 DEF SplitQName
  <2>2. text # <<>> /\ text[Len(text)] = Dot
    BY <1>4
  <2> QED  BY <1>4, <2>1, <2>2 DEF Join, Qualified
<1>5. CASE text # <<>> /\ text # <<Dot>>
  <2> DEFINE d == IF text[Len(text)] = Dot THEN text ELSE Append(text, Dot)
  <2>1. SplitQName(text) = LabelsOf(d) /\ Qualified(text) = d
    BY <1>1, <1>5 DEF SplitQName, Qualified
  <2>2. d \in Seq(Nat) /\ d # <<>> /\ d[Len(d)] = Dot
    <3>1. CASE text[Len(text)] = Dot
      BY <1>5, <3>1
    <3>2. CASE text[Len(text)] # Dot
      <4>1. d = Append(text, Dot)
        BY <3>2
      <4>2. d \in Seq(Nat) /\ Len(d) = Len(text) + 1 /\ d[Len(text) + 1] = Dot
        BY <4>1, AppendProperties DEF Dot
      <4> HIDE DEF d
      <4> QED  BY <1>2, <4>2, EmptySeq
    <3> QED  BY <3>1, <3>2
  <2> HIDE DEF d
  <2>3. LabelsOf(d) # <<>> /\ Dotted(LabelsOf(d)) = d
    BY <2>2, LabelsJoin
  <2> QED  BY <2>1, <2>3 DEF Join, Dotted
<1> QED  BY <1>3, <1>4, <1>5

(* The text of labels in ASCII is ASCII.                                   *)
LEMMA DottedAscii ==
    ASSUME NEW L \in LabelLists, AsciiLabels(L)
    PROVE  IsAscii(Dotted(L))
<1> DEFINE S == {n \in Nat : \A A \in LabelLists : Len(A) = n /\ AsciiLabels(A) => IsAscii(Dotted(A))}
<1>1. 0 \in S
  <2> SUFFICES ASSUME NEW A \in LabelLists, Len(A) = 0  PROVE IsAscii(Dotted(A))
    OBVIOUS
  <2>1. Dotted(A) = <<>>
    BY LabelListTypes, DottedNext
  <2> QED  BY <2>1 DEF IsAscii
<1>2. ASSUME NEW n \in Nat, n \in S  PROVE n + 1 \in S
  <2> SUFFICES ASSUME NEW A \in LabelLists, Len(A) = n + 1, AsciiLabels(A)  PROVE IsAscii(Dotted(A))
    OBVIOUS
  <2>1. /\ Front(A) \in LabelLists /\ Len(Front(A)) = n /\ A = Append(Front(A), A[n + 1])
        /\ A[n + 1] \in Seq(Nat) /\ \A i \in 1 .. n : Front(A)[i] = A[i]
    BY FrontIs
  <2>2. AsciiLabels(Front(A)) /\ \A j \in 1 .. Len(A[n + 1]) : A[n + 1][j] < 128
    BY <2>1 DEF AsciiLabels
  <2> DEFINE F == Front(A)
             a == A[n + 1]
             p == Dotted(F)
             z == <<Dot>>
             u == a \o z
  <2> HIDE DEF F, a
  <2>3. F \in LabelLists /\ a \in Seq(Nat) /\ A = Append(F, a) /\ IsAscii(p) /\ \A j \in 1 .. Len(a) : a[j] < 128
    BY <1>2, <2>1, <2>2 DEF F, a
  <2>4. Dotted(A) = p \o u /\ p \in Seq(Nat) /\ z \in Seq(Nat) /\ Len(z) = 1 /\ z[1] < 128
    <3>1. Dotted(A) = p \o u /\ p \in Seq(Nat)
      BY <2>3, DottedNext
    <3>2. z \in Seq(Nat) /\ Len(z) = 1 /\ z[1] = Dot
      BY TextTypes
    <3> QED  BY <3>1, <3>2 DEF Dot
  <2>5. \A i \in 1 .. Len(p) : p[i] < 128
    BY <2>3, <2>4, LenProperties DEF IsAscii
  <2>6. Len(a) \in Nat /\ Len(p) \in Nat
    BY <2>3, <2>4, LenProperties
  <2> HIDE DEF p, z
  <2>7. u \in Seq(Nat) /\ Len(u) = Len(a) + 1 /\ \A i \in 1 .. Len(u) : u[i] < 128
    <3>1. /\ u \in Seq(Nat) /\ Len(u) = Len(a) + Len(z)
          /\ \A i \in 1 .. Len(a) + Len(z) : u[i] = IF i <= Len(a) THEN a[i] ELSE z[i - Len(a)]
      BY <2>3, <2>4, ConcatProperties
    <3> HIDE DEF u
    <3>2. ASSUME NEW i \in 1 .. Len(a) + 1  PROVE u[i] < 128
      <4>1. i <= Len(a) => i \in 1 .. Len(a)
        BY <2>6
      <4>2. ~(i <= Len(a)) => i - Len(a) = 1
        BY <2>6
      <4> QED  BY <2>3, <2>4, <3>1, <4>1, <4>2
    <3> QED  BY <2>4, <3>1, <3>2
  <2> HIDE DEF u
  <2> DEFINE v == p \o u
  <2>8. /\ v \in Seq(Nat) /\ Len(v) = Len(p) + Len(u)
        /\ \A i \in 1 .. Len(p) + Len(u) : v[i] = IF i <= Len(p) THEN p[i] ELSE u[i - Len(p)]
    <3>1. p \in Seq(Nat) /\ u \in Seq(Nat)
      BY <2>4, <2>7
    <3> QED  BY <3>1, ConcatProperties
  <2> HIDE DEF v
  <2>9. ASSUME NEW i \in 1 .. Len(v)  PROVE v[i] < 128
    <3>0. Len(u) \in Nat /\ i \in 1 .. Len(p) + Len(u)
      BY <2>6, <2>7, <2>8
    <3>1. CASE i <= Len(p)
      <4>1. i \in 1 .. Len(p) /\ v[i] = p[i]
        BY <2>6, <2>8, <3>0, <3>1
      <4> QED  BY <2>5, <4>1
    <3>2. CASE ~(i <= Len(p))
      <4>1. i - Len(p) \in 1 .. Len(u) /\ v[i] = u[i - Len(p)]
        BY <2>6, <2>8, <3>0, <3>2
      <4> QED  BY <2>7, <4>1
    <3> QED  BY <3>1, <3>2
  <2>10. IsAscii(v)
    BY <2>8, <2>9, LenProperties DEF IsAscii
  <2> QED  BY <2>4, <2>10 DEF v
<1> HIDE DEF S
<1>3. Len(L) \in S
  BY <1>1, <1>2, LabelListTypes, Induction
<1> QED  BY <1>3 DEF S

(* What FoldCase makes of a cell; texts it makes the same.                 *)
Low(c) == IF c \in 65 .. 90 THEN c + 32 ELSE c
Alike(s, t) == Len(s) = Len(t) /\ \A i \in 1 .. Len(s) : Low(s[i]) = Low(t[i])
SameLabels(L, G) == Len(L) = Len(G) /\ \A i \in 1 .. Len(L) : Alike(L[i], G[i])

(* Texts are the same but for case when their cells are alike.             *)
LEMMA FoldIsAlike ==
    ASSUME NEW s \in Seq(Nat), NEW t \in Seq(Nat)
    PROVE  FoldCase(s) = FoldCase(t) <=> Alike(s, t)
<1>1. DOMAIN s = 1 .. Len(s) /\ DOMAIN t = 1 .. Len(t) /\ Len(s) \in Nat /\ Len(t) \in Nat
  BY LenProperties
<1>2. FoldCase(s) = [i \in 1 .. Len(s) |-> Low(s[i])] /\ FoldCase(t) = [i \in 1 .. Len(t) |-> Low(t[i])]
  BY <1>1 DEF FoldCase, Low
<1>3. ASSUME Alike(s, t)  PROVE FoldCase(s) = FoldCase(t)
  BY <1>2, <1>3 DEF Alike
<1>4. ASSUME FoldCase(s) = FoldCase(t)  PROVE Alike(s, t)
  <2>1. 1 .. Len(s) = 1 .. Len(t)
    <3>1. DOMAIN FoldCase(s) = 1 .. Len(s) /\ DOMAIN FoldCase(t) = 1 .. Len(t)
      BY <1>2
    <3> QED  BY <1>4, <3>1
  <2>2. Len(s) = Len(t)
    <3>1. CASE Len(s) < Len(t)
      <4>1. Len(t) \in 1 .. Len(t) /\ Len(t) \notin 1 .. Len(s)
        BY <1>1, <3>1
      <4> QED  BY <2>1, <4>1
    <3>2. CASE Len(t) < Len(s)
      <4>1. Len(s) \in 1 .. Len(s) /\ Len(s) \notin 1 .. Len(t)
        BY <1>1, <3>2
      <4> QED  BY <2>1, <4>1
    <3>0. \A m, n \in Nat : m < n \/ n < m \/ m = n
      OBVIOUS
    <3>3. Len(s) < Len(t) \/ Len(t) < Len(s) \/ Len(s) = Len(t)
      BY <1>1, <3>0, Zenon
    <3> QED  BY <3>1, <3>2, <3>3
  <2>3. ASSUME NEW i \in 1 .. Len(s)  PROVE Low(s[i]) = Low(t[i])
    <3>1. FoldCase(s)[i] = Low(s[i]) /\ FoldCase(t)[i] = Low(t[i])
      BY <1>2, <2>1
    <3> QED  BY <1>4, <3>1
  <2> QED  BY <2>2, <2>3 DEF Alike
<1> QED  BY <1>3, <1>4

(* Only a dot is like a dot.                                               *)
LEMMA LowDot == \A c \in Nat : Low(c) = Low(Dot) => c = Dot
BY DEF Low, Dot

(* Texts put together are alike when their parts are.                      *)
LEMMA AlikeConcat ==
    ASSUME NEW a \in Seq(Nat), NEW b \in Seq(Nat), NEW s \in Seq(Nat), NEW t \in Seq(Nat), Len(a) = Len(b)
    PROVE  Alike(a \o s, b \o t) <=> Alike(a, b) /\ Alike(s, t)
<1>0. Len(a) \in Nat /\ Len(b) \in Nat /\ Len(s) \in Nat /\ Len(t) \in Nat
  BY TextTypes
<1>1. /\ Len(a \o s) = Len(a) + Len(s)
      /\ \A i \in 1 .. Len(a) + Len(s) : (a \o s)[i] = IF i <= Len(a) THEN a[i] ELSE s[i - Len(a)]
  BY ConcatProperties
<1>2. /\ Len(b \o t) = Len(b) + Len(t)
      /\ \A i \in 1 .. Len(b) + Len(t) : (b \o t)[i] = IF i <= Len(b) THEN b[i] ELSE t[i - Len(b)]
  BY ConcatProperties
<1>3. ASSUME Alike(a, b), Alike(s, t)  PROVE Alike(a \o s, b \o t)
  <2>1. Len(s) = Len(t)
    BY <1>3 DEF Alike
  <2>2. ASSUME NEW i \in 1 .. Len(a) + Len(s)  PROVE Low((a \o s)[i]) = Low((b \o t)[i])
    <3>1. CASE i <= Len(a)
      <4>1. (a \o s)[i] = a[i] /\ (b \o t)[i] = b[i] /\ i \in 1 .. Len(a)
        BY <1>0, <1>1, <1>2, <2>1, <3>1
      <4> QED  BY <1>3, <4>1 DEF Alike
    <3>2. CASE ~(i <= Len(a))
      <4>1. (a \o s)[i] = s[i - Len(a)] /\ (b \o t)[i] = t[i - Len(a)] /\ i - Len(a) \in 1 .. Len(s)
        BY <1>0, <1>1, <1>2, <2>1, <3>2
      <4> QED  BY <1>3, <4>1 DEF Alike
    <3> QED  BY <3>1, <3>2
  <2> QED  BY <1>1, <1>2, <2>1, <2>2 DEF Alike
<1>4. ASSUME Alike(a \o s, b \o t)  PROVE Alike(a, b) /\ Alike(s, t)
  <2>1. Len(s) = Len(t) /\ \A i \in 1 .. Len(a) + Len(s) : Low((a \o s)[i]) = Low((b \o t)[i])
    BY <1>0, <1>1, <1>2, <1>4 DEF Alike
  <2>2. ASSUME NEW i \in 1 .. Len(a)  PROVE Low(a[i]) = Low(b[i])
    <3>1. i \in 1 .. Len(a) + Len(s) /\ i <= Len(a)
      BY <1>0
    <3>2. (a \o s)[i] = a[i] /\ (b \o t)[i] = b[i]
      BY <1>1, <1>2, <2>1, <3>1
    <3> QED  BY <2>1, <3>1, <3>2
  <2>3. ASSUME NEW i \in 1 .. Len(s)  PROVE Low(s[i]) = Low(t[i])
    <3> DEFINE k == i + Len(a)
    <3>1. k \in 1 .. Len(a) + Len(s) /\ ~(k <= Len(a)) /\ k - Len(a) = i
      BY <1>0
    <3>2. (a \o s)[k] = s[i] /\ (b \o t)[k] = t[i]
      BY <1>1, <1>2, <2>1, <3>1
    <3> QED  BY <2>1, <3>1, <3>2
  <2> QED  BY <2>1, <2>2, <2>3 DEF Alike
<1> QED  BY <1>3, <1>4

(* Labels that are alike have texts that are alike.                        *)
LEMMA DottedSame ==
    ASSUME NEW L \in LabelLists, NEW G \in LabelLists, SameLabels(L, G)
    PROVE  Alike(Dotted(L), Dotted(G))
<1> DEFINE S == {n \in Nat : \A A, B \in LabelLists : Len(A) = n /\ SameLabels(A, B) => Alike(Dotted(A), Dotted(B))}
<1>1. 0 \in S
  <2> SUFFICES ASSUME NEW A \in LabelLists, NEW B \in LabelLists, Len(A) = 0, SameLabels(A, B)
               PROVE  Alike(Dotted(A), Dotted(B))
    OBVIOUS
  <2>1. A = <<>> /\ B = <<>>
    BY LabelListTypes DEF SameLabels
  <2> QED  BY <2>1, TextTypes DEF Alike
<1>2. ASSUME NEW n \in Nat, n \in S  PROVE n + 1 \in S
  <2> SUFFICES ASSUME NEW A \in LabelLists, NEW B \in LabelLists, Len(A) = n + 1, SameLabels(A, B)
               PROVE  Alike(Dotted(A), Dotted(B))
    OBVIOUS
  <2>1. Len(B) = n + 1 /\ Alike(A[n + 1], B[n + 1])
    BY DEF SameLabels
  <2>2. /\ Front(A) \in LabelLists /\ Len(Front(A)) = n /\ A = Append(Front(A), A[n + 1])
        /\ A[n + 1] \in Seq(Nat) /\ \A i \in 1 .. n : Front(A)[i] = A[i]
    BY FrontIs
  <2>3. /\ Front(B) \in LabelLists /\ Len(Front(B)) = n /\ B = Append(Front(B), B[n + 1])
        /\ B[n + 1] \in Seq(Nat) /\ \A i \in 1 .. n : Front(B)[i] = B[i]
    BY <2>1, FrontIs
  <2> DEFINE F == Front(A)
             H == Front(B)
             a == A[n + 1]
             b == B[n + 1]
  <2>4. SameLabels(F, H)
    <3>1. \A i \in 1 .. n : Alike(A[i], B[i])
      BY DEF SameLabels
    <3> QED  BY <2>2, <2>3, <3>1 DEF SameLabels
  <2> HIDE DEF F, H, a, b
  <2>5. F \in LabelLists /\ H \in LabelLists /\ Len(F) = n /\ a \in Seq(Nat) /\ b \in Seq(Nat) /\ Alike(a, b)
    BY <2>1, <2>2, <2>3 DEF F, H, a, b
  <2>6. Alike(Dotted(F), Dotted(H))
    BY <1>2, <2>4, <2>5
  <2>7. Dotted(A) = Dotted(F) \o (a \o <<Dot>>) /\ Dotted(B) = Dotted(H) \o (b \o <<Dot>>)
    <3>1. A = Append(F, a) /\ B = Append(H, b)
      BY <2>2, <2>3 DEF F, H, a, b
    <3> QED  BY <2>5, <3>1, DottedNext
  <2>8. Alike(a \o <<Dot>>, b \o <<Dot>>)
    <3>1. <<Dot>> \in Seq(Nat) /\ Alike(<<Dot>>, <<Dot>>) /\ Len(a) = Len(b)
      BY <2>5, TextTypes DEF Alike
    <3> QED  BY <2>5, <3>1, AlikeConcat
  <2>9. /\ Dotted(F) \in Seq(Nat) /\ Dotted(H) \in Seq(Nat) /\ Len(Dotted(F)) = Len(Dotted(H))
        /\ a \o <<Dot>> \in Seq(Nat) /\ b \o <<Dot>> \in Seq(Nat)
    BY <2>5, <2>6, DottedNext, TextTypes DEF Alike
  <2> DEFINE p == Dotted(F)
             q == Dotted(H)
             u == a \o <<Dot>>
             v == b \o <<Dot>>
  <2>10. Dotted(A) = p \o u /\ Dotted(B) = q \o v /\ Alike(p, q) /\ Alike(u, v)
    BY <2>6, <2>7, <2>8
  <2>11. p \in Seq(Nat) /\ q \in Seq(Nat) /\ u \in Seq(Nat) /\ v \in Seq(Nat) /\ Len(p) = Len(q)
    BY <2>9
  <2> HIDE DEF p, q, u, v
  <2>12. Alike(p \o u, q \o v)
    BY <2>10, <2>11, AlikeConcat
  <2> QED  BY <2>10, <2>12
<1> HIDE DEF S
<1>3. Len(L) \in S
  BY <1>1, <1>2, LabelListTypes, Induction
<1> QED  BY <1>3 DEF S

(* Between dots there is only one way to cut a text.                       *)
LEMMA LastLabelIs ==
    ASSUME NEW p \in Seq(Nat), NEW q \in Seq(Nat), NEW a \in Seq(Nat), NEW b \in Seq(Nat),
           p = <<>> \/ p[Len(p)] = Dot, \A i \in 1 .. Len(b) : b[i] # Dot,
           Alike(p \o (a \o <<Dot>>), q \o (b \o <<Dot>>)), Len(a) < Len(b)
    PROVE  FALSE
<1> DEFINE u == a \o <<Dot>>
           v == b \o <<Dot>>
<1>0. /\ Len(p) \in Nat /\ Len(q) \in Nat /\ Len(a) \in Nat /\ Len(b) \in Nat
      /\ u \in Seq(Nat) /\ v \in Seq(Nat) /\ Len(u) = Len(a) + 1 /\ Len(v) = Len(b) + 1
  BY TextTypes
<1>1. \A i \in 1 .. Len(b) : v[i] = b[i]
  <2>1. <<Dot>> \in Seq(Nat) /\ Len(<<Dot>>) = 1
    BY TextTypes
  <2>2. \A i \in 1 .. Len(b) + Len(<<Dot>>) : v[i] = IF i <= Len(b) THEN b[i] ELSE <<Dot>>[i - Len(b)]
    BY <2>1, ConcatProperties
  <2> QED  BY <1>0, <2>1, <2>2
<1>2. Alike(p \o u, q \o v)
  OBVIOUS
<1> HIDE DEF u, v
<1>3. /\ Len(p \o u) = Len(p) + Len(u)
      /\ \A i \in 1 .. Len(p) + Len(u) : (p \o u)[i] = IF i <= Len(p) THEN p[i] ELSE u[i - Len(p)]
  BY <1>0, ConcatProperties
<1>4. /\ Len(q \o v) = Len(q) + Len(v)
      /\ \A i \in 1 .. Len(q) + Len(v) : (q \o v)[i] = IF i <= Len(q) THEN q[i] ELSE v[i - Len(q)]
  BY <1>0, ConcatProperties
<1>5. Len(p) + (Len(a) + 1) = Len(q) + (Len(b) + 1)
  <2>1. Len(p \o u) = Len(q \o v)
    BY <1>2 DEF Alike
  <2> QED  BY <1>0, <1>3, <1>4, <2>1
<1>6. CASE p = <<>>
  BY <1>0, <1>5, <1>6, TextTypes
<1>7. CASE p # <<>>
  <2> DEFINE k == Len(p)
             j == k - Len(q)
  <2>1. k >= 1
    BY <1>0, <1>7, EmptySeq
  <2>2. k \in 1 .. Len(p) + Len(u) /\ k \in 1 .. Len(q) + Len(v) /\ ~(k <= Len(q)) /\ j \in 1 .. Len(b)
    <3>1. \A c, x, y, z \in Nat : c + (x + 1) = y + (z + 1) /\ x < z /\ c >= 1 =>
              c \in 1 .. c + (x + 1) /\ c \in 1 .. y + (z + 1) /\ ~(c <= y) /\ c - y \in 1 .. z
      OBVIOUS
    <3> QED  BY <1>0, <1>5, <2>1, <3>1
  <2>3. (p \o u)[k] = p[k] /\ p[k] = Dot
    <3>1. k <= Len(p)
      BY <1>0
    <3> QED  BY <1>3, <1>7, <2>2, <3>1
  <2>4. (q \o v)[k] = v[j] /\ v[j] = b[j]
    BY <1>1, <1>4, <2>2
  <2>5. Low((p \o u)[k]) = Low((q \o v)[k])
    BY <1>2, <1>3, <2>2 DEF Alike
  <2>6. b[j] \in Nat /\ b[j] # Dot
    BY <2>2, TextTypes
  <2>7. Low(b[j]) = Low(Dot)
    BY <2>3, <2>4, <2>5
  <2> HIDE DEF j
  <2> QED  BY <2>6, <2>7, LowDot
<1> QED  BY <1>6, <1>7

(* The text of some labels is not empty.                                   *)
LEMMA DottedLength ==
    ASSUME NEW L \in LabelLists
    PROVE  Len(Dotted(L)) \in Nat /\ (Len(Dotted(L)) = 0 => L = <<>>)
<1>0. Len(Dotted(L)) \in Nat
  BY DottedNext, TextTypes
<1>1. CASE L # <<>>
  <2> DEFINE n == Len(L) - 1
             F == Front(L)
             l == L[n + 1]
             p == Dotted(F)
             u == l \o <<Dot>>
  <2>1. n \in Nat /\ Len(L) = n + 1
    BY <1>1, LabelListTypes
  <2> HIDE DEF n
  <2>2. F \in LabelLists /\ L = Append(F, l) /\ l \in Seq(Nat)
    BY <2>1, FrontIs
  <2> HIDE DEF F, l
  <2>3. Dotted(L) = p \o u /\ p \in Seq(Nat)
    BY <2>2, DottedNext
  <2>4. u \in Seq(Nat) /\ Len(u) = Len(l) + 1 /\ Len(l) \in Nat
    BY <2>2, TextTypes
  <2> HIDE DEF p, u
  <2>5. Len(p \o u) = Len(p) + Len(u) /\ Len(p) \in Nat
    BY <2>3, <2>4, TextTypes
  <2> QED  BY <2>3, <2>4, <2>5
<1> QED  BY <1>0, <1>1

(* To be alike is symmetric.                                               *)
LEMMA AlikeSym == ASSUME NEW s \in Seq(Nat), NEW t \in Seq(Nat), Alike(s, t)  PROVE Alike(t, s)
BY DEF Alike

(* The text of some labels ends with a dot.                                *)
LEMMA DottedEnds ==
    ASSUME NEW L \in LabelLists
    PROVE  Dotted(L) = <<>> \/ Dotted(L)[Len(Dotted(L))] = Dot
<1>1. CASE L = <<>>
  BY <1>1, DottedNext
<1>2. CASE L # <<>>
  <2> DEFINE n == Len(L) - 1
             F == Front(L)
             l == L[n + 1]
             p == Dotted(F)
             u == l \o <<Dot>>
  <2>1. n \in Nat /\ Len(L) = n + 1
    BY <1>2, LabelListTypes
  <2> HIDE DEF n
  <2>2. F \in LabelLists /\ L = Append(F, l) /\ l \in Seq(Nat)
    BY <2>1, FrontIs
  <2> HIDE DEF F, l
  <2>3. Dotted(L) = p \o u /\ p \in Seq(Nat)
    BY <2>2, DottedNext
  <2>4. u \in Seq(Nat) /\ Len(u) = Len(l) + 1 /\ Len(l) \in Nat /\ <<Dot>> \in Seq(Nat) /\ Len(<<Dot>>) = 1
    BY <2>2, TextTypes
  <2>5. u[Len(l) + 1] = Dot
    <3>1. \A i \in 1 .. Len(l) + Len(<<Dot>>) : u[i] = IF i <= Len(l) THEN l[i] ELSE <<Dot>>[i - Len(l)]
      BY <2>2, <2>4, ConcatProperties
    <3>2. Len(l) + 1 \in 1 .. Len(l) + Len(<<Dot>>) /\ ~(Len(l) + 1 <= Len(l)) /\ (Len(l) + 1) - Len(l) = 1
      BY <2>4
    <3>3. <<Dot>>[1] = Dot
      OBVIOUS
    <3> QED  BY <3>1, <3>2, <3>3
  <2> HIDE DEF p, u
  <2>6. /\ Len(p \o u) = Len(p) + Len(u) /\ Len(p) \in Nat
        /\ \A i \in 1 .. Len(p) + Len(u) : (p \o u)[i] = IF i <= Len(p) THEN p[i] ELSE u[i - Len(p)]
    BY <2>3, <2>4, ConcatProperties, LenProperties
  <2> DEFINE k == Len(p) + Len(u)
  <2>7. k \in 1 .. Len(p) + Len(u) /\ ~(k <= Len(p)) /\ k - Len(p) = Len(l) + 1
    BY <2>4, <2>6
  <2>8. (p \o u)[k] = Dot
    BY <2>5, <2>6, <2>7
  <2> QED  BY <2>3, <2>6, <2>8
<1> QED  BY <1>1, <1>2

(* Only labels that are alike have texts that are alike: a suffix found in *)
(* the table has labels like those looked for.                             *)
LEMMA DottedInjective ==
    ASSUME NEW L \in LabelLists, NEW G \in LabelLists, Dotless(L), Dotless(G), Alike(Dotted(L), Dotted(G))
    PROVE  SameLabels(L, G)
<1> DEFINE Clear(A, B) == Dotless(A) /\ Dotless(B) /\ Alike(Dotted(A), Dotted(B))
           S == {n \in Nat : \A A, B \in LabelLists : Len(A) = n /\ Clear(A, B) => SameLabels(A, B)}
<1>1. 0 \in S
  <2> SUFFICES ASSUME NEW A \in LabelLists, NEW B \in LabelLists, Len(A) = 0, Clear(A, B)
               PROVE  SameLabels(A, B)
    OBVIOUS
  <2>1. A = <<>> /\ Dotted(A) = <<>>
    BY LabelListTypes, DottedNext
  <2>2. Len(Dotted(B)) = 0
    BY <2>1, TextTypes DEF Alike
  <2>3. B = <<>>
    BY <2>2, DottedLength, LabelListTypes
  <2> QED  BY <2>1, <2>3, LabelListTypes DEF SameLabels
<1>2. ASSUME NEW n \in Nat, n \in S  PROVE n + 1 \in S
  <2> SUFFICES ASSUME NEW A \in LabelLists, NEW B \in LabelLists, Len(A) = n + 1, Clear(A, B)
               PROVE  SameLabels(A, B)
    OBVIOUS
  <2>1. B # <<>>
    <3>1. Len(Dotted(A)) # 0
      BY DottedLength, LabelListTypes
    <3>2. Len(Dotted(A)) = Len(Dotted(B))
      BY DEF Alike
    <3> QED  BY <3>1, <3>2, DottedNext, TextTypes
  <2> DEFINE m == Len(B) - 1
             F == Front(A)
             H == Front(B)
             a == A[n + 1]
             b == B[m + 1]
  <2>2. m \in Nat /\ Len(B) = m + 1
    BY <2>1, LabelListTypes
  <2> HIDE DEF m
  <2>3. /\ F \in LabelLists /\ Len(F) = n /\ A = Append(F, a)
        /\ a \in Seq(Nat) /\ \A i \in 1 .. n : F[i] = A[i]
    BY FrontIs
  <2>4. /\ H \in LabelLists /\ Len(H) = m /\ B = Append(H, b)
        /\ b \in Seq(Nat) /\ \A i \in 1 .. m : H[i] = B[i]
    BY <2>2, FrontIs
  <2>5. /\ \A i \in 1 .. Len(a) : a[i] # Dot
        /\ \A i \in 1 .. Len(b) : b[i] # Dot
        /\ Dotless(F) /\ Dotless(H)
    <3>1. n + 1 \in 1 .. Len(A) /\ m + 1 \in 1 .. Len(B) /\ Dotless(A) /\ Dotless(B)
      BY <2>2
    <3>2. /\ \A i \in 1 .. Len(a) : a[i] # Dot
          /\ \A i \in 1 .. Len(b) : b[i] # Dot
      BY <3>1 DEF Dotless
    <3>3. Dotless(F)
      BY <2>3, <3>1 DEF Dotless
    <3>4. Dotless(H)
      BY <2>2, <2>4, <3>1 DEF Dotless
    <3> QED  BY <3>2, <3>3, <3>4
  <2> HIDE DEF F, H, a, b
  <2> DEFINE p == Dotted(F)
             q == Dotted(H)
             u == a \o <<Dot>>
             v == b \o <<Dot>>
  <2>6. Alike(p \o u, q \o v)
    <3>1. Dotted(A) = p \o u /\ Dotted(B) = q \o v
      BY <2>3, <2>4, DottedNext
    <3>2. Alike(Dotted(A), Dotted(B))
      OBVIOUS
    <3> QED  BY <3>1, <3>2
  <2>7. /\ p \in Seq(Nat) /\ q \in Seq(Nat)
        /\ p = <<>> \/ p[Len(p)] = Dot
        /\ q = <<>> \/ q[Len(q)] = Dot
    BY <2>3, <2>4, DottedNext, DottedEnds
  <2> HIDE DEF p, q
  <2>8. Len(a) = Len(b)
    <3>1. p \o u \in Seq(Nat) /\ q \o v \in Seq(Nat) /\ Len(a) \in Nat /\ Len(b) \in Nat
      BY <2>3, <2>4, <2>7, TextTypes
    <3>2. Alike(q \o v, p \o u)
      BY <2>6, <3>1, AlikeSym
    <3>3. ~(Len(a) < Len(b))
      BY <2>3, <2>4, <2>5, <2>6, <2>7, LastLabelIs
    <3>4. ~(Len(b) < Len(a))
      BY <2>3, <2>4, <2>5, <2>7, <3>2, LastLabelIs
    <3> QED  BY <3>1, <3>3, <3>4
  <2>9. u \in Seq(Nat) /\ v \in Seq(Nat) /\ Len(u) = Len(a) + 1 /\ Len(v) = Len(a) + 1
        /\ Len(a) \in Nat /\ Len(p) \in Nat /\ Len(q) \in Nat /\ <<Dot>> \in Seq(Nat)
    BY <2>3, <2>4, <2>7, <2>8, TextTypes
  <2>10. Alike(u, v) => Alike(a, b)
    BY <2>3, <2>4, <2>8, <2>9, AlikeConcat
  <2> HIDE DEF u, v
  <2>11. Len(p) = Len(q)
    <3>1. Len(p \o u) = Len(p) + Len(u) /\ Len(q \o v) = Len(q) + Len(v)
      BY <2>7, <2>9, TextTypes
    <3>2. Len(p \o u) = Len(q \o v)
      BY <2>6 DEF Alike
    <3> QED  BY <2>9, <3>1, <3>2
  <2>12. Alike(p, q) /\ Alike(u, v)
    BY <2>6, <2>7, <2>9, <2>11, AlikeConcat
  <2>13. Clear(F, H)
    BY <2>5, <2>12 DEF p, q
  <2>14. SameLabels(F, H)
    <3> HIDE DEF Clear
    <3> QED  BY <1>2, <2>3, <2>4, <2>13
  <2>15. n = m
    BY <2>3, <2>4, <2>14 DEF SameLabels
  <2>16. ASSUME NEW i \in 1 .. n + 1  PROVE Alike(A[i], B[i])
    <3>1. CASE i = n + 1
      BY <2>10, <2>12, <2>15, <3>1 DEF a, b
    <3>2. CASE i # n + 1
      <4>1. i \in 1 .. n
        BY <3>2
      <4> QED  BY <2>3, <2>4, <2>14, <2>15, <4>1 DEF SameLabels
    <3> QED  BY <3>1, <3>2
  <2> QED  BY <2>2, <2>15, <2>16 DEF SameLabels
<1> HIDE DEF S
<1>3. Len(L) \in S
  BY <1>1, <1>2, LabelListTypes, Induction
<1>4. Clear(L, G)
  OBVIOUS
<1> HIDE DEF Clear
<1> QED  BY <1>3, <1>4 DEF S

-------------------------------------------------------------------------------

(* The cells of two texts, one after the other.                            *)
LEMMA TextConcat ==
    ASSUME NEW s \in Seq(Nat), NEW t \in Seq(Nat)
    PROVE  /\ Len(s \o t) = Len(s) + Len(t)
           /\ \A i \in 1 .. Len(s) + Len(t) : (s \o t)[i] = IF i <= Len(s) THEN s[i] ELSE t[i - Len(s)]
BY ConcatProperties

(* A text begins another.                                                  *)
Begins(s, t) == Len(s) <= Len(t) /\ \A i \in 1 .. Len(s) : s[i] = t[i]

(* Beginning is reflexive, holds of a concatenation and is transitive.     *)
LEMMA BeginsIs ==
    /\ \A s \in Seq(Nat) : Begins(s, s)
    /\ \A s, t \in Seq(Nat) : Begins(s, s \o t)
    /\ \A r, s, t \in Seq(Nat) : Begins(r, s) /\ Begins(s, t) => Begins(r, t)
<1>1. ASSUME NEW s \in Seq(Nat)  PROVE Begins(s, s)
  BY TextTypes DEF Begins
<1>2. ASSUME NEW s \in Seq(Nat), NEW t \in Seq(Nat)  PROVE Begins(s, s \o t)
  <2>1. Len(s) \in Nat /\ Len(t) \in Nat /\ Len(s \o t) = Len(s) + Len(t)
    BY TextTypes
  <2>2. \A i \in 1 .. Len(s) + Len(t) : (s \o t)[i] = IF i <= Len(s) THEN s[i] ELSE t[i - Len(s)]
    BY ConcatProperties
  <2> QED  BY <2>1, <2>2 DEF Begins
<1>3. ASSUME NEW r \in Seq(Nat), NEW s \in Seq(Nat), NEW t \in Seq(Nat), Begins(r, s), Begins(s, t)
      PROVE  Begins(r, t)
  <2>1. Len(r) \in Nat /\ Len(s) \in Nat /\ Len(t) \in Nat
    BY TextTypes
  <2>2. Len(r) <= Len(s) /\ Len(s) <= Len(t) /\ \A i \in 1 .. Len(r) : i \in 1 .. Len(s)
    BY <1>3, <2>1 DEF Begins
  <2> QED  BY <1>3, <2>1, <2>2 DEF Begins
<1> QED  BY <1>1, <1>2, <1>3

(* The cells of n labels are those of n - 1 and those of the last.         *)
LEMMA LabelCellsNext ==
    ASSUME NEW L \in LabelLists
    PROVE  /\ LabelCells(L, 0) = <<>>
           /\ \A n \in 0 .. Len(L) : LabelCells(L, n) \in Seq(Nat)
           /\ \A n \in 1 .. Len(L) : LabelCells(L, n) = LabelCells(L, n - 1) \o (<<Len(L[n])>> \o L[n])
<1> DEFINE c == [j \in 1 .. Len(L) |-> <<Len(L[j])>> \o L[j]]
           m == Len(L)
<1>1. m \in Nat /\ \A i \in 1 .. m : L[i] \in Seq(Nat)
  BY LabelListTypes
<1>2. \A i \in 1 .. m : c[i] = <<Len(L[i])>> \o L[i] /\ c[i] \in Seq(Nat)
  BY <1>1, TextTypes
<1>3. ASSUME NEW n \in 0 .. m  PROVE LabelCells(L, n) = FlatTo(c, n)
  <2>1. [j \in 1 .. n |-> <<Len(L[j])>> \o L[j]] = [j \in 1 .. n |-> c[j]]
    <3>1. \A j \in 1 .. n : j \in 1 .. m
      BY <1>1
    <3>2. \A j \in 1 .. n : c[j] = <<Len(L[j])>> \o L[j]
      BY <1>2, <3>1
    <3> HIDE DEF c
    <3> QED  BY <3>2
  <2> HIDE DEF c
  <2> QED  BY <2>1 DEF LabelCells, FlatTo
<1> HIDE DEF c
<1>4. /\ FlatTo(c, 0) = <<>>
      /\ \A n \in 0 .. m : FlatTo(c, n) \in Seq(Nat)
      /\ \A n \in 1 .. m : FlatTo(c, n) = FlatTo(c, n - 1) \o c[n]
  <2> HIDE DEF m
  <2> QED  BY <1>1, <1>2, FlatNext
<1>5. \A n \in 1 .. m : n \in 0 .. m /\ n - 1 \in 0 .. m
  BY <1>1
<1>6. 0 \in 0 .. m
  BY <1>1
<1> QED  BY <1>2, <1>3, <1>4, <1>5, <1>6

(* The cells of fewer labels begin those of more.                          *)
LEMMA LabelCellsGrow ==
    ASSUME NEW L \in LabelLists, NEW n \in 0 .. Len(L), NEW m \in 0 .. Len(L), n <= m
    PROVE  Begins(LabelCells(L, n), LabelCells(L, m))
<1> DEFINE S == {d \in Nat : n + d <= Len(L) => Begins(LabelCells(L, n), LabelCells(L, n + d))}
<1>0. Len(L) \in Nat
  BY LabelListTypes
<1>1. 0 \in S
  <2>1. LabelCells(L, n) \in Seq(Nat)
    BY LabelCellsNext, Zenon
  <2>2. n + 0 = n
    BY <1>0
  <2>3. Begins(LabelCells(L, n), LabelCells(L, n))
    BY <2>1, BeginsIs
  <2> QED  BY <2>2, <2>3
<1>2. ASSUME NEW d \in Nat, d \in S  PROVE d + 1 \in S
  <2> SUFFICES ASSUME n + (d + 1) <= Len(L)
               PROVE  Begins(LabelCells(L, n), LabelCells(L, n + (d + 1)))
    OBVIOUS
  <2> DEFINE k == n + (d + 1)
             l == <<Len(L[k])>> \o L[k]
  <2>1. k \in 1 .. Len(L) /\ k - 1 = n + d /\ k \in 0 .. Len(L) /\ n + d \in 0 .. Len(L) /\ n + d <= Len(L)
    BY <1>0
  <2>2. Begins(LabelCells(L, n), LabelCells(L, n + d))
    BY <1>2, <2>1
  <2> HIDE DEF k
  <2>3. LabelCells(L, k) = LabelCells(L, n + d) \o l
    <3>1. LabelCells(L, k) = LabelCells(L, k - 1) \o (<<Len(L[k])>> \o L[k])
      BY <2>1, LabelCellsNext
    <3> QED  BY <2>1, <3>1
  <2>4. L[k] \in Seq(Nat)
    BY <2>1, LabelListTypes
  <2>5. l \in Seq(Nat)
    BY <2>4, TextTypes
  <2> HIDE DEF l
  <2>6. LabelCells(L, n) \in Seq(Nat) /\ LabelCells(L, n + d) \in Seq(Nat)
    BY <2>1, LabelCellsNext
  <2>7. LabelCells(L, n + d) \o l \in Seq(Nat) /\ Begins(LabelCells(L, n + d), LabelCells(L, n + d) \o l)
    BY <2>5, <2>6, BeginsIs, TextTypes
  <2>8. Begins(LabelCells(L, n), LabelCells(L, k))
    BY <2>2, <2>3, <2>6, <2>7, BeginsIs
  <2> QED  BY <2>8 DEF k
<1> HIDE DEF S
<1>3. m - n \in S
  <2>1. m - n \in Nat
    BY <1>0
  <2> QED  BY <1>1, <1>2, <2>1, Induction
<1>4. n + (m - n) = m /\ m <= Len(L)
  BY <1>0
<1> QED  BY <1>3, <1>4 DEF S

(* Where a label stands in the cells of a list.                            *)
LEMMA LabelAt ==
    ASSUME NEW L \in LabelLists, NEW k \in Nat, NEW n \in Nat, k < n, n <= Len(L)
    PROVE  LET at == Len(LabelCells(L, k))
               all == LabelCells(L, n)
               size == Len(L[k + 1])
           IN  /\ at \in Nat /\ Len(all) \in Nat /\ size \in Nat
               /\ Len(LabelCells(L, k + 1)) = (at + 1) + size
               /\ (at + 1) + size <= Len(all)
               /\ all[at + 1] = size
               /\ \A i \in 1 .. size : all[(at + 1) + i] = L[k + 1][i]
<1> DEFINE at == Len(LabelCells(L, k))
           all == LabelCells(L, n)
           l == L[k + 1]
           size == Len(l)
           next == LabelCells(L, k + 1)
           cells == <<size>> \o l
<1>0. Len(L) \in Nat
  BY LabelListTypes
<1>1. /\ k + 1 \in 1 .. Len(L) /\ k \in 0 .. Len(L) /\ k + 1 \in 0 .. Len(L) /\ (k + 1) - 1 = k
      /\ n \in 0 .. Len(L) /\ k + 1 <= n
  BY <1>0
<1>2. l \in Seq(Nat)
  BY <1>1, LabelListTypes
<1>3. LabelCells(L, k) \in Seq(Nat) /\ next \in Seq(Nat) /\ all \in Seq(Nat)
  BY <1>1, LabelCellsNext
<1>4. next = LabelCells(L, k) \o cells
  <2>1. LabelCells(L, k + 1) = LabelCells(L, (k + 1) - 1) \o (<<Len(L[k + 1])>> \o L[k + 1])
    BY <1>1, LabelCellsNext
  <2> QED  BY <1>1, <2>1
<1>5. Begins(next, all)
  BY <1>1, LabelCellsGrow
<1> HIDE DEF l, next, all
<1>6. size \in Nat /\ <<size>> \in Seq(Nat) /\ Len(<<size>>) = 1 /\ <<size>>[1] = size
  BY <1>2, TextTypes
<1> HIDE DEF size
<1>7. /\ cells \in Seq(Nat) /\ Len(cells) = 1 + size
      /\ \A i \in 1 .. 1 + size : cells[i] = IF i <= 1 THEN <<size>>[i] ELSE l[i - 1]
  BY <1>2, <1>6, ConcatProperties DEF size
<1>8. cells[1] = size /\ \A i \in 1 .. size : cells[1 + i] = l[i]
  <2>1. ASSUME NEW i \in 1 .. size  PROVE cells[1 + i] = l[i]
    <3>1. 1 + i \in 1 .. 1 + size /\ ~(1 + i <= 1) /\ (1 + i) - 1 = i
      BY <1>6
    <3> HIDE DEF cells
    <3> QED  BY <1>7, <3>1
  <2>2. 1 \in 1 .. 1 + size
    BY <1>6
  <2> HIDE DEF cells
  <2> QED  BY <1>6, <1>7, <2>1, <2>2
<1> HIDE DEF cells
<1>9. /\ at \in Nat /\ Len(next) = at + (1 + size)
      /\ \A i \in 1 .. at + (1 + size) : next[i] = IF i <= at THEN LabelCells(L, k)[i] ELSE cells[i - at]
  <2> DEFINE before == LabelCells(L, k)
  <2>1. before \in Seq(Nat) /\ next = before \o cells /\ at = Len(before)
    BY <1>3, <1>4
  <2> HIDE DEF before, at
  <2>2. at \in Nat
    BY <2>1, LenProperties
  <2>3. /\ Len(before \o cells) = Len(before) + Len(cells)
        /\ \A i \in 1 .. Len(before) + Len(cells) :
              (before \o cells)[i] = IF i <= Len(before) THEN before[i] ELSE cells[i - Len(before)]
    BY <1>7, <2>1, TextConcat
  <2>4. /\ Len(next) = at + (1 + size)
        /\ \A i \in 1 .. at + (1 + size) : next[i] = IF i <= at THEN before[i] ELSE cells[i - at]
    BY <1>7, <2>1, <2>3
  <2> QED  BY <2>2, <2>4 DEF before
<1> HIDE DEF at
<1>10. Len(all) \in Nat /\ Len(next) <= Len(all) /\ \A i \in 1 .. Len(next) : next[i] = all[i]
  BY <1>3, <1>5, LenProperties DEF Begins
<1>11. ASSUME NEW i \in 1 .. 1 + size  PROVE all[at + i] = cells[i]
  <2>1. at + i \in 1 .. at + (1 + size) /\ ~(at + i <= at) /\ (at + i) - at = i
    BY <1>6, <1>9
  <2> QED  BY <1>9, <1>10, <2>1
<1>12. all[at + 1] = size
  <2>1. 1 \in 1 .. 1 + size
    BY <1>6
  <2> QED  BY <1>8, <1>11, <2>1
<1>13. ASSUME NEW i \in 1 .. size  PROVE all[(at + 1) + i] = l[i]
  <2>1. 1 + i \in 1 .. 1 + size /\ at + (1 + i) = (at + 1) + i
    BY <1>6, <1>9
  <2> QED  BY <1>8, <1>11, <2>1
<1>14. Len(next) = (at + 1) + size /\ (at + 1) + size <= Len(all)
  BY <1>6, <1>9, <1>10
<1> QED  BY <1>6, <1>9, <1>10, <1>12, <1>13, <1>14 DEF at, next, all, l, size

-------------------------------------------------------------------------------

(* The text that parseName makes of labels is a text.                      *)
LEMMA JoinType == \A L \in LabelLists : Join(L) \in Seq(Nat)
<1> SUFFICES ASSUME NEW L \in LabelLists  PROVE Join(L) \in Seq(Nat)
  OBVIOUS
<1>1. Dotted(L) \in Seq(Nat)
  BY DottedNext, Zenon
<1>2. <<Dot>> \in Seq(Nat)
  BY TextTypes
<1> QED  BY <1>1, <1>2 DEF Join, Dotted

Question == [name : Text, type : Cell]
Record == [name : Text, type : Cell, raw : Text, parsed : BOOLEAN, data : Seq(Item)]

(* What has been read has its types.                                       *)
ReadInv ==
    /\ left \in [questions : Nat, records : Nat]
    /\ rr.name \in Text /\ rr.type \in Nat /\ rr.start \in Nat /\ rr.data \in Seq(Item)
    /\ msg \in Message

(* Nothing has been read at the start.                                     *)
LEMMA ReadStarts == Init => ReadInv
<1> SUFFICES ASSUME Init  PROVE ReadInv
  OBVIOUS
<1>1. <<>> \in Seq(Nat) /\ <<>> \in Seq(Item) /\ <<>> \in Seq(Question) /\ <<>> \in Seq(Record)
  BY EmptySeq
<1> QED  BY <1>1 DEF Init, ReadInv, NoRecord, NothingRead, Message, Text, Cell, Question, Record

(* A step that leaves the record and the message alone.                    *)
LEMMA ReadAlone ==
    ASSUME ReadInv, UNCHANGED <<rr, msg>>, left' \in [questions : Nat, records : Nat]
    PROVE  ReadInv'
BY DEF ReadInv

(* A step that adds an item to the record.                                 *)
LEMMA ItemAdded ==
    ASSUME ReadInv, UNCHANGED <<left, msg>>, DOMAIN rr = {"name", "type", "start", "end", "cur", "fields", "data"},
           NEW op \in {"numbers", "name", "counted", "rest"}, NEW value \in Seq(Nat), NEW fields, NEW to,
           rr' = [rr EXCEPT !.fields = fields, !.cur = to, !.data = Append(@, [op |-> op, value |-> value])]
    PROVE  ReadInv'
<1>1. [op |-> op, value |-> value] \in Item
  BY DEF Item, Text, Cell
<1>2. Append(rr.data, [op |-> op, value |-> value]) \in Seq(Item)
  BY <1>1, AppendProperties DEF ReadInv
<1>3. rr'.name = rr.name /\ rr'.type = rr.type /\ rr'.start = rr.start /\ rr'.data \in Seq(Item)
  BY <1>2
<1> QED  BY <1>3 DEF ReadInv

(* Every step of the decoder keeps the types of what has been read.        *)
LEMMA ReadKeepsTypes == IInv /\ ReadInv /\ [Next]_vars => ReadInv'
<1> SUFFICES ASSUME IInv, ReadInv, [Next]_vars  PROVE ReadInv'
  OBVIOUS
<1>t. /\ packet \in Seq(Nat) /\ nm.labels \in Seq(Seq(Nat)) /\ nm \in NameType
      /\ DOMAIN rr = {"name", "type", "start", "end", "cur", "fields", "data"}
  BY DEF IInv, NameType, RecordOK
<1>i. rr.cur \in Nat /\ rr.end \in Nat /\ rr.end <= Size /\ Size \in Nat /\ rr.start \in Nat
  BY <1>t, CellType DEF IInv, RecordOK, ReadInv
<1>a. \A o \in Nat : o < Size => At(o) \in Nat
  BY <1>t, CellType
<1>s. \A from \in Nat, to \in Nat : to <= Size => Cells(from, to) \in Seq(Nat)
  BY <1>t, CellType
<1>j. Join(nm.labels) \in Seq(Nat)
  BY <1>t, JoinType DEF LabelLists
<1>l. left \in [questions : Nat, records : Nat] /\ msg \in Message
  BY DEF ReadInv
<1>f. ASSUME pc = "field", rr.fields # <<>>  PROVE Field.n \in Nat
  <2>1. Guarded(rr.fields)
    BY DEF IInv, RecordOK
  <2>2. Head(rr.fields) = rr.fields[1] /\ rr.fields[1] \in Fields
    BY <1>f, <2>1, TailGuarded
  <2> QED  BY <2>2 DEF Field, Fields
<1>1. CASE UNCHANGED vars
  BY <1>1, <1>l, ReadAlone DEF vars
<1>2. CASE DecodeHeader
  <2>1. left' \in [questions : Nat, records : Nat]
    <3>1. Size >= HeaderSize => At(0) \in Nat /\ At(1) \in Nat
      BY <1>a, <1>i DEF HeaderSize
    <3> QED  BY <1>2, <1>l, <3>1 DEF DecodeHeader, HeaderCounts
  <2> QED  BY <1>2, <2>1, ReadAlone DEF DecodeHeader
<1>3. CASE NextQuestion
  <2>1. left' \in [questions : Nat, records : Nat]
    BY <1>3, <1>l DEF NextQuestion
  <2> QED  BY <1>3, <2>1, ReadAlone DEF NextQuestion
<1>4. CASE NextRecord
  <2>1. left' \in [questions : Nat, records : Nat]
    BY <1>4, <1>l DEF NextRecord
  <2> QED  BY <1>4, <2>1, ReadAlone DEF NextRecord
<1>5. CASE Finish
  BY <1>5, <1>l, ReadAlone DEF Finish
<1>6. CASE FollowPointer \/ ReadLabel \/ NameEnds \/ NameFails
  <2>1. UNCHANGED <<left, rr, msg>>
    BY <1>6 DEF FollowPointer, ReadLabel, NameEnds, NameFails
  <2> QED  BY <2>1, <1>l, ReadAlone
<1>r. ASSUME NEW parsed \in BOOLEAN, EndRecord(parsed)  PROVE ReadInv'
  <2> DEFINE r == [name |-> rr.name, type |-> rr.type, raw |-> Cells(rr.start, rr.end),
                   parsed |-> parsed, data |-> IF parsed THEN rr.data ELSE <<>>]
  <2>1. r \in Record
    <3>1. Cells(rr.start, rr.end) \in Seq(Nat)
      BY <1>i, <1>s
    <3>2. <<>> \in Seq(Item)
      BY EmptySeq
    <3> QED  BY <3>1, <3>2 DEF ReadInv, Record, Text, Cell
  <2> HIDE DEF r
  <2>2. msg.records \in Seq(Record) /\ msg.questions \in Seq(Question)
    BY <1>l DEF Message, Record, Question
  <2>3. msg' = [msg EXCEPT !.records = Append(@, r)]
    BY <1>r DEF EndRecord, r
  <2>4. Append(msg.records, r) \in Seq(Record)
    BY <2>1, <2>2, AppendProperties
  <2>5. msg' \in Message
    BY <1>l, <2>2, <2>3, <2>4 DEF Message, Record, Question
  <2> QED  BY <1>r, <1>l, <2>5 DEF EndRecord, ReadInv
<1>7. CASE BadName
  <2>1. CASE EndRecord(FALSE)
    BY <2>1, <1>r
  <2>2. CASE UNCHANGED <<packet, off, left, nm, rr, msg>>
    BY <2>2, <1>l, ReadAlone
  <2> QED  BY <1>7, <2>1, <2>2 DEF BadName
<1>8. CASE EndQuestion
  <2>1. CASE UNCHANGED <<off, msg>>
    BY <1>8, <2>1, <1>l, ReadAlone DEF EndQuestion
  <2>2. CASE /\ nm.next + QuestionFixed <= Size
             /\ msg' = [msg EXCEPT !.questions = Append(@, [name |-> Join(nm.labels), type |-> At(nm.next)])]
    <3> DEFINE q == [name |-> Join(nm.labels), type |-> At(nm.next)]
    <3>1. q \in Question
      <4>1. nm.next \in Nat
        BY <1>8 DEF EndQuestion, IInv
      <4>2. At(nm.next) \in Nat
        BY <1>a, <1>i, <2>2, <4>1 DEF QuestionFixed
      <4> QED  BY <1>j, <4>2 DEF Question, Text, Cell
    <3> HIDE DEF q
    <3>2. msg.records \in Seq(Record) /\ msg.questions \in Seq(Question)
      BY <1>l DEF Message, Record, Question
    <3>3. msg' = [msg EXCEPT !.questions = Append(@, q)]
      BY <2>2 DEF q
    <3>4. Append(msg.questions, q) \in Seq(Question)
      BY <3>1, <3>2, AppendProperties
    <3>5. msg' \in Message
      BY <1>l, <3>2, <3>3, <3>4 DEF Message, Record, Question
    <3> QED  BY <1>8, <1>l, <3>5 DEF EndQuestion, ReadInv
  <2> QED  BY <1>8, <2>1, <2>2 DEF EndQuestion
<1>9. CASE StartRecord
  <2>1. UNCHANGED <<left, msg>> /\ nm.next \in Nat
    BY <1>9 DEF StartRecord, IInv
  <2>2. CASE UNCHANGED rr
    BY <2>1, <2>2, <1>l, ReadAlone
  <2>3. CASE /\ nm.next + RecordFixed <= Size
             /\ rr' = [name |-> Join(nm.labels), type |-> At(nm.next), start |-> nm.next + RecordFixed,
                       end |-> nm.next + RecordFixed + At(nm.next + 1), cur |-> nm.next + RecordFixed,
                       fields |-> RDataFields(At(nm.next)), data |-> <<>>]
    <3>1. At(nm.next) \in Nat /\ nm.next + RecordFixed \in Nat
      BY <1>a, <1>i, <2>1, <2>3 DEF RecordFixed
    <3>2. <<>> \in Seq(Item)
      BY EmptySeq
    <3>3. rr'.name \in Text /\ rr'.type \in Nat /\ rr'.start \in Nat /\ rr'.data \in Seq(Item)
      BY <1>j, <2>3, <3>1, <3>2 DEF Text, Cell
    <3> QED  BY <1>l, <2>1, <3>3 DEF ReadInv
  <2> QED  BY <1>9, <2>2, <2>3 DEF StartRecord
<1>10. CASE CheckLength
  <2>1. CASE EndRecord(FALSE)
    BY <2>1, <1>r
  <2>2. CASE rr' = [rr EXCEPT !.fields = Tail(@)] /\ UNCHANGED <<packet, pc, off, left, nm, msg>>
    BY <2>2, <1>t DEF ReadInv
  <2> QED  BY <1>10, <2>1, <2>2 DEF CheckLength
<1>k. ASSUME NEW op \in {"numbers", "name", "counted", "rest"}, NEW value \in Seq(Nat), NEW to,
             Took(op, value, to), UNCHANGED <<left, msg>>
      PROVE  ReadInv'
  BY <1>k, <1>t, ItemAdded DEF Took
<1>11. CASE ReadNumbers
  <2>1. CASE UNCHANGED rr
    BY <1>11, <2>1, <1>l, ReadAlone DEF ReadNumbers
  <2>2. CASE /\ rr.cur + Field.n <= Size
             /\ Took("numbers", Cells(rr.cur, rr.cur + Field.n), rr.cur + Field.n)
    <3>1. rr.cur + Field.n \in Nat
      BY <1>11, <1>f, <1>i DEF ReadNumbers, AtField
    <3>2. Cells(rr.cur, rr.cur + Field.n) \in Seq(Nat)
      BY <1>i, <1>s, <2>2, <3>1
    <3> QED  BY <1>11, <1>k, <2>2, <3>2 DEF ReadNumbers
  <2> QED  BY <1>11, <2>1, <2>2 DEF ReadNumbers
<1>12. CASE ReadName
  BY <1>12, <1>l, ReadAlone DEF ReadName
<1>13. CASE EndRDataName
  BY <1>13, <1>j, <1>k DEF EndRDataName
<1>14. CASE ReadCounted
  <2>1. CASE UNCHANGED <<packet, off, left, nm, rr, msg>>
    BY <2>1, <1>l, ReadAlone
  <2>2. CASE EndRecord(FALSE)
    BY <2>2, <1>r
  <2>3. CASE /\ rr.cur < Size /\ rr.cur + 1 + At(rr.cur) <= rr.end
             /\ Took("counted", Cells(rr.cur + 1, rr.cur + 1 + At(rr.cur)), rr.cur + 1 + At(rr.cur))
             /\ UNCHANGED <<packet, pc, off, left, nm, msg>>
    <3>1. rr.cur + 1 \in Nat /\ rr.cur + 1 + At(rr.cur) \in Nat /\ rr.cur + 1 + At(rr.cur) <= Size
      <4>1. At(rr.cur) \in Nat
        BY <1>a, <1>i, <2>3
      <4> QED  BY <1>i, <2>3, <4>1
    <3>2. Cells(rr.cur + 1, rr.cur + 1 + At(rr.cur)) \in Seq(Nat)
      BY <1>s, <3>1
    <3> QED  BY <1>k, <2>3, <3>2
  <2> QED  BY <1>14, <2>1, <2>2, <2>3 DEF ReadCounted
<1>15. CASE ReadString
  <2>1. CASE EndRecord(FALSE)
    BY <2>1, <1>r
  <2>2. CASE /\ StringEnd(rr.cur) <= rr.end
             /\ rr' = [rr EXCEPT !.cur = StringEnd(@),
                          !.data = Append(@, [op |-> "counted", value |-> Cells(rr.cur + 1, StringEnd(rr.cur))])]
             /\ UNCHANGED <<packet, pc, off, left, nm, msg>>
    <3>1. rr.cur + 1 \in Nat /\ StringEnd(rr.cur) \in Nat /\ StringEnd(rr.cur) <= Size
      <4>1. rr.cur < rr.end
        BY <1>15 DEF ReadString
      <4>2. At(rr.cur) \in Nat
        BY <1>a, <1>i, <4>1
      <4> QED  BY <1>i, <2>2, <4>2 DEF StringEnd
    <3>2. Cells(rr.cur + 1, StringEnd(rr.cur)) \in Seq(Nat)
      BY <1>s, <3>1
    <3> DEFINE to == StringEnd(rr.cur)
               value == Cells(rr.cur + 1, StringEnd(rr.cur))
    <3>3. /\ rr' = [rr EXCEPT !.cur = to, !.data = Append(@, [op |-> "counted", value |-> value])]
          /\ UNCHANGED <<left, msg>> /\ value \in Seq(Nat)
      BY <2>2, <3>2
    <3> HIDE DEF to, value
    <3>4. [op |-> "counted", value |-> value] \in Item
      BY <3>3 DEF Item, Text, Cell
    <3>5. Append(rr.data, [op |-> "counted", value |-> value]) \in Seq(Item)
      BY <3>4, AppendProperties DEF ReadInv
    <3>6. rr'.name = rr.name /\ rr'.type = rr.type /\ rr'.start = rr.start /\ rr'.data \in Seq(Item)
      BY <1>t, <3>3, <3>5
    <3> QED  BY <3>3, <3>6 DEF ReadInv
  <2> QED  BY <1>15, <2>1, <2>2 DEF ReadString
<1>16. CASE EndStrings
  BY <1>16, <1>t DEF EndStrings, ReadInv
<1>17. CASE ReadRest
  <2>1. CASE UNCHANGED rr
    BY <1>17, <2>1, <1>l, ReadAlone DEF ReadRest
  <2>2. CASE Took("rest", Cells(rr.cur, rr.end), rr.end)
    <3>1. Cells(rr.cur, rr.end) \in Seq(Nat)
      BY <1>i, <1>s
    <3> QED  BY <1>17, <1>k, <2>2, <3>1 DEF ReadRest
  <2> QED  BY <1>17, <2>1, <2>2 DEF ReadRest
<1>18. CASE EndFields
  BY <1>18, <1>r DEF EndFields
<1> QED
  BY <1>1, <1>2, <1>3, <1>4, <1>5, <1>6, <1>7, <1>8, <1>9, <1>10, <1>11, <1>12, <1>13, <1>14, <1>15,
     <1>16, <1>17, <1>18 DEF Next, decodeName, parseRData

-------------------------------------------------------------------------------

Keys == Text \cup {LowerRunes(t) : t \in Text}
Suffix == [key : Keys, offset : Nat]
Writer == [buf : Text, compression : SUBSET Suffix, ok : BOOLEAN]

(* Appending cells adds to the buffer and to nothing else.                 *)
LEMMA PutIs ==
    ASSUME NEW v \in Writer, NEW cells \in Seq(Nat)
    PROVE  /\ Put(v, cells) \in Writer /\ Begins(v.buf, Put(v, cells).buf)
           /\ Put(v, cells).buf = v.buf \o cells /\ Put(v, cells).ok = v.ok /\ Put(v, cells).compression = v.compression
<1>1. v.buf \in Seq(Nat) /\ v.buf \o cells \in Seq(Nat) /\ Begins(v.buf, v.buf \o cells)
  BY BeginsIs, TextTypes DEF Writer, Text, Cell
<1> QED  BY <1>1 DEF Put, Writer, Text, Cell

(* What a text is in lower case.                                           *)
LEMMA LowerType == \A s \in Seq(Nat) : ToLower(s) \in Keys
<1> SUFFICES ASSUME NEW s \in Seq(Nat)  PROVE ToLower(s) \in Keys
  OBVIOUS
<1> DEFINE f == [i \in 1 .. Len(s) |-> Low(s[i])]
<1>1. Len(s) \in Nat /\ DOMAIN s = 1 .. Len(s) /\ \A i \in 1 .. Len(s) : s[i] \in Nat
  BY LenProperties, ElementOfSeq
<1>2. \A c \in Nat : Low(c) \in Nat
  BY DEF Low
<1>3. FoldCase(s) = f
  BY <1>1 DEF FoldCase, Low
<1>4. f \in [1 .. Len(s) -> Nat]
  BY <1>1, <1>2
<1> HIDE DEF f
<1>5. FoldCase(s) \in Text
  BY <1>1, <1>3, <1>4, SeqDef DEF Text, Cell
<1>6. LowerRunes(s) \in {LowerRunes(t) : t \in Text}
  BY DEF Text, Cell
<1> QED  BY <1>5, <1>6, Zenon DEF ToLower, Keys

(* What is known of the suffixes of a list.                                *)
LEMMA SuffixIs ==
    ASSUME NEW L \in LabelLists, NEW v \in Writer, NEW i \in 1 .. Len(L)
    PROVE  SuffixKey(L, i) \in Keys /\ SuffixOffset(v, L, i) \in Nat
<1>0. Len(L) \in Nat /\ \A j \in 1 .. Len(L) : L[j] \in Seq(Nat)
  BY LabelListTypes
<1>1. SubSeq(L, i, Len(L)) \in LabelLists
  <2>1. \A j \in i .. Len(L) : L[j] \in Seq(Nat)
    BY <1>0
  <2>2. i \in Nat
    BY <1>0
  <2> QED  BY <1>0, <2>1, <2>2, SubSeqProperties DEF LabelLists
<1>2. SuffixKey(L, i) \in Keys
  BY <1>1, JoinType, LowerType DEF SuffixKey
<1>3. i - 1 \in 0 .. Len(L)
  BY <1>0
<1>4. LabelCells(L, i - 1) \in Seq(Nat)
  BY <1>3, LabelCellsNext
<1>5. v.buf \in Seq(Nat)
  BY DEF Writer, Text, Cell
<1>6. Len(LabelCells(L, i - 1)) \in Nat /\ Len(v.buf) \in Nat
  BY <1>4, <1>5, LenProperties
<1>7. Len(v.buf) + Len(LabelCells(L, i - 1)) \in Nat
  <2>1. \A a, b \in Nat : a + b \in Nat
    OBVIOUS
  <2> QED  BY <1>6, <2>1, Zenon
<1> QED  BY <1>2, <1>7, Zenon DEF SuffixOffset

(* What the writer of labels leaves in the buffer, whatever it notes in    *)
(* its table.                                                              *)
LEMMA WriteLabelsIs ==
    ASSUME NEW v \in Writer, NEW L \in LabelLists, NEW n \in 0 .. Len(L), NEW ending \in Seq(Nat)
    PROVE  /\ WriteLabels(v, L, n, ending) \in Writer
           /\ Begins(v.buf, WriteLabels(v, L, n, ending).buf)
           /\ WriteLabels(v, L, n, ending).buf = (v.buf \o LabelCells(L, n)) \o ending
           /\ WriteLabels(v, L, n, ending).ok = v.ok
<1> DEFINE new == {[key |-> SuffixKey(L, i), offset |-> SuffixOffset(v, L, i)] : i \in 1 .. n}
           cells == LabelCells(L, n)
           buf == (v.buf \o cells) \o ending
<1>0. Len(L) \in Nat /\ \A i \in 1 .. n : i \in 1 .. Len(L)
  BY LabelListTypes
<1>1. new \subseteq Suffix
  <2> SUFFICES ASSUME NEW i \in 1 .. n
               PROVE  [key |-> SuffixKey(L, i), offset |-> SuffixOffset(v, L, i)] \in Suffix
    OBVIOUS
  <2>1. SuffixKey(L, i) \in Keys /\ SuffixOffset(v, L, i) \in Nat
    BY <1>0, SuffixIs
  <2> QED  BY <2>1 DEF Suffix
<1> HIDE DEF new
<1>2. v.buf \in Seq(Nat) /\ cells \in Seq(Nat)
  BY LabelCellsNext DEF Writer, Text, Cell
<1>3. WriteLabels(v, L, n, ending) = [v EXCEPT !.buf = buf, !.compression = @ \cup new]
  BY DEF WriteLabels, new
<1> HIDE DEF cells
<1>4. buf \in Seq(Nat) /\ Begins(v.buf, buf)
  <2>1. v.buf \o cells \in Seq(Nat) /\ Begins(v.buf, v.buf \o cells)
    BY <1>2, BeginsIs, TextTypes
  <2>2. buf \in Seq(Nat) /\ Begins(v.buf \o cells, buf)
    BY <2>1, BeginsIs, TextTypes
  <2> HIDE DEF buf
  <2> QED  BY <1>2, <2>1, <2>2, BeginsIs
<1>5. /\ [v EXCEPT !.buf = buf, !.compression = @ \cup new] \in Writer
      /\ [v EXCEPT !.buf = buf, !.compression = @ \cup new].buf = buf
      /\ [v EXCEPT !.buf = buf, !.compression = @ \cup new].ok = v.ok
  <2> HIDE DEF buf
  <2>1. v.compression \cup new \in SUBSET Suffix
    BY <1>1 DEF Writer
  <2> QED  BY <1>4, <2>1 DEF Writer, Text, Cell
<1> QED  BY <1>3, <1>4, <1>5 DEF cells

(* A writer stays a writer and keeps what it has.                          *)
Kept(v, x) == x \in Writer /\ Begins(v.buf, x.buf)

(* Writing a name, with a pointer or without, adds to the buffer.          *)
LEMMA WriteNameKeeps ==
    ASSUME NEW v \in Writer, NEW text \in Seq(Nat)
    PROVE  Kept(v, WriteName(v, text))
<1> DEFINE L == SplitQName(text)
           known == {i \in DOMAIN L : \E s \in v.compression : s.key = SuffixKey(L, i)}
<1>1. L \in LabelLists
  BY SplitQNameIs
<1>2. Len(L) \in Nat /\ DOMAIN L = 1 .. Len(L)
  BY <1>1, LabelListTypes
<1>3. Kept(v, Failed(v))
  <2>1. Failed(v) \in Writer /\ Failed(v).buf = v.buf
    BY DEF Failed, Writer
  <2>2. Begins(v.buf, v.buf)
    BY BeginsIs DEF Writer, Text, Cell
  <2> QED  BY <2>1, <2>2 DEF Kept
<1>4. Kept(v, WriteLabels(v, L, Len(L), <<0>>))
  <2>1. Len(L) \in 0 .. Len(L) /\ <<0>> \in Seq(Nat)
    BY <1>2, TextTypes
  <2> HIDE DEF L
  <2> QED  BY <1>1, <2>1, WriteLabelsIs DEF Kept
<1>5. ASSUME known # {}  PROVE Kept(v, PointBack(v, L, Min(known)))
  <2> DEFINE i == Min(known)
             target == (CHOOSE s \in v.compression : s.key = SuffixKey(L, i)).offset
  <2>1. known \subseteq 1 .. Len(L)
    BY <1>2
  <2>2. i \in known
    <3> HIDE DEF known, L
    <3> QED  BY <1>2, <1>5, <2>1, Ends
  <2>3. target \in Nat
    <3>1. \E s \in v.compression : s.key = SuffixKey(L, i)
      BY <2>2
    <3>2. (CHOOSE s \in v.compression : s.key = SuffixKey(L, i)) \in v.compression
      BY <3>1
    <3> QED  BY <3>2 DEF Writer, Suffix
  <2>4. PointBack(v, L, i) = IF target > MaxPointer THEN Failed(v) ELSE WriteLabels(v, L, i - 1, Pointer(target))
    BY DEF PointBack
  <2>5. i - 1 \in 0 .. Len(L)
    BY <1>2, <2>1, <2>2
  <2> HIDE DEF target, i, L, known
  <2>6. Pointer(target) \in Seq(Nat)
    BY <2>3 DEF Pointer
  <2>7. Kept(v, WriteLabels(v, L, i - 1, Pointer(target)))
    BY <1>1, <2>5, <2>6, WriteLabelsIs DEF Kept
  <2> QED  BY <1>3, <2>4, <2>7 DEF i
<1>6. WriteName(v, text) = IF ~Writable(L) THEN Failed(v)
                           ELSE IF known = {} THEN WriteLabels(v, L, Len(L), <<0>>)
                           ELSE PointBack(v, L, Min(known))
  BY DEF WriteName
<1> HIDE DEF known, L
<1> QED  BY <1>3, <1>4, <1>5, <1>6

(* Writing one field of the data adds to the buffer.                       *)
LEMMA WriteItemKeeps ==
    ASSUME NEW v \in Writer, NEW item \in Item
    PROVE  Kept(v, WriteItem(v, item))
<1> DEFINE value == item.value
           more == <<Len(value)>> \o value
<1>1. value \in Seq(Nat) /\ more \in Seq(Nat)
  BY TextTypes DEF Item, Text, Cell
<1>2. Kept(v, WriteName(v, value))
  BY <1>1, WriteNameKeeps
<1> HIDE DEF value
<1>3. Kept(v, Put(v, value))
  BY <1>1, PutIs DEF Kept
<1>4. Kept(v, [Put(v, more) EXCEPT !.ok = Len(value) <= MaxString])
  <2> HIDE DEF more
  <2>1. Put(v, more) \in Writer /\ Begins(v.buf, Put(v, more).buf)
    BY <1>1, PutIs
  <2>2. (Len(value) <= MaxString) \in BOOLEAN
    OBVIOUS
  <2> DEFINE b == Len(value) <= MaxString
             x == Put(v, more)
  <2> HIDE DEF x
  <2>3. x \in Writer /\ Begins(v.buf, x.buf) /\ b \in BOOLEAN
    BY <2>1, <2>2 DEF x
  <2> HIDE DEF b
  <2>4. [x EXCEPT !.ok = b] \in Writer /\ [x EXCEPT !.ok = b].buf = x.buf
    BY <2>3 DEF Writer
  <2> QED  BY <2>3, <2>4 DEF Kept, x, b
<1> QED  BY <1>2, <1>3, <1>4 DEF WriteItem, value

-------------------------------------------------------------------------------

(* What the encoder holds, with its types: the length of a record at hand  *)
(* goes where a cell was written for it.                                   *)
WriteInv ==
    /\ sent \in Message
    /\ todo \in [questions : Seq(Question), records : Seq(Record), items : Seq(Item)]
    /\ w \in Writer
    /\ lenPos \in Nat
    /\ epc = "field" => lenPos \in 1 .. Len(w.buf)

(* The labels of the first question, the cells every packet of a message   *)
(* with a question begins with, and that this one has them.                *)
FirstLabels == SplitQName(sent.questions[1].name)
Opening == NormalizeCounts(sent) \o (LabelCells(FirstLabels, Len(FirstLabels)) \o <<0>>)
Opened == Writable(FirstLabels) /\ Begins(Opening, w.buf)

NothingWritten ==
    todo.questions = sent.questions /\ w.buf = NormalizeCounts(sent) /\ w.compression = {}

OpenInv ==
    sent.questions # <<>> =>
        /\ epc = "question" => Opened \/ NothingWritten
        /\ epc \in {"record", "field", "encoded"} => Opened
        /\ epc = "field" => lenPos > Len(Opening)

(* The opening is a text; its cells are the counts, the labels and 0.      *)
LEMMA OpeningIs ==
    ASSUME sent \in Message, sent.questions # <<>>
    PROVE  /\ FirstLabels \in LabelLists /\ sent.questions[1].name \in Seq(Nat)
           /\ NormalizeCounts(sent) \in Seq(Nat) /\ Len(NormalizeCounts(sent)) = 2
           /\ NormalizeCounts(sent)[1] = Len(sent.questions) /\ Len(sent.questions) \in Nat
           /\ Opening \in Seq(Nat)
<1>1. sent.questions \in Seq(Question) /\ sent.records \in Seq(Record)
  BY DEF Message, Question, Record
<1>2. sent.questions[1] \in Question
  <2>1. Len(sent.questions) \in Nat /\ Len(sent.questions) # 0
    BY <1>1, EmptySeq, LenProperties
  <2>2. 1 \in 1 .. Len(sent.questions)
    BY <2>1
  <2> QED  BY <1>1, <2>2, ElementOfSeq
<1>3. sent.questions[1].name \in Seq(Nat)
  BY <1>2 DEF Question, Text, Cell
<1>4. FirstLabels \in LabelLists
  BY <1>3, SplitQNameIs DEF FirstLabels
<1>5. Len(sent.questions) \in Nat /\ Len(sent.records) \in Nat
  BY <1>1, LenProperties
<1>6. /\ NormalizeCounts(sent) \in Seq(Nat) /\ Len(NormalizeCounts(sent)) = 2
      /\ NormalizeCounts(sent)[1] = Len(sent.questions)
  <2> DEFINE a == Len(sent.questions)
             b == Len(sent.records)
  <2>1. a \in Nat /\ b \in Nat /\ NormalizeCounts(sent) = <<a, b>>
    BY <1>5 DEF NormalizeCounts
  <2> HIDE DEF a, b
  <2>2. <<a, b>> \in Seq(Nat) /\ Len(<<a, b>>) = 2 /\ <<a, b>>[1] = a
    BY <2>1
  <2> QED  BY <2>1, <2>2 DEF a
<1>7. LabelCells(FirstLabels, Len(FirstLabels)) \in Seq(Nat)
  <2>1. Len(FirstLabels) \in 0 .. Len(FirstLabels)
    BY <1>4, LabelListTypes
  <2> QED  BY <1>4, <2>1, LabelCellsNext
<1>8. LabelCells(FirstLabels, Len(FirstLabels)) \o <<0>> \in Seq(Nat)
  BY <1>7, TextTypes
<1>9. Opening \in Seq(Nat)
  BY <1>6, <1>8, TextTypes DEF Opening
<1> QED  BY <1>3, <1>4, <1>5, <1>6, <1>9

(* Nothing that is added later takes the opening away.                     *)
LEMMA StaysOpened ==
    ASSUME WriteInv, sent.questions # <<>>, UNCHANGED sent, Opened, Kept(w, w')
    PROVE  Opened'
<1>1. Opening' = Opening /\ FirstLabels' = FirstLabels /\ Writable(FirstLabels)' = Writable(FirstLabels)
  BY DEF Opening, FirstLabels, Writable, TextLength
<1>2. Begins(Opening, w.buf) /\ Begins(w.buf, w'.buf)
  BY DEF Opened, Kept
<1>3. Opening \in Seq(Nat)
  BY OpeningIs DEF WriteInv
<1>4. w.buf \in Seq(Nat) /\ w'.buf \in Seq(Nat)
  BY DEF WriteInv, Kept, Writer, Text, Cell
<1>5. Begins(Opening, w'.buf)
  BY <1>2, <1>3, <1>4, BeginsIs
<1> QED  BY <1>1, <1>5 DEF Opened

(* Concatenation is associative.                                           *)
LEMMA TextAssoc == \A s, t, u \in Seq(Nat) : (s \o t) \o u = s \o (t \o u)
BY ConcatAssociative, SMTT(30)

(* The first question is written out: there is nothing to point back to.   *)
LEMMA FirstIsWritten ==
    ASSUME WriteInv, sent.questions # <<>>, NothingWritten, NEW type \in Nat,
           Put(WriteName(w, sent.questions[1].name), <<type>>).ok
    PROVE  /\ Writable(FirstLabels)
           /\ Begins(Opening, Put(WriteName(w, sent.questions[1].name), <<type>>).buf)
<1> DEFINE L == FirstLabels
           text == sent.questions[1].name
           x == WriteName(w, text)
           C == NormalizeCounts(sent)
           all == LabelCells(L, Len(L))
<1>1. L \in LabelLists /\ text \in Seq(Nat) /\ C \in Seq(Nat) /\ Opening \in Seq(Nat) /\ w \in Writer
  BY OpeningIs DEF WriteInv
<1>2. L = SplitQName(text) /\ w.buf = C /\ w.compression = {}
  BY DEF FirstLabels, NothingWritten
<1>3. x = IF ~Writable(L) THEN Failed(w) ELSE WriteLabels(w, L, Len(L), <<0>>)
  BY <1>2 DEF WriteName
<1> HIDE DEF L, text, C
<1>4. x \in Writer
  BY <1>1, WriteNameKeeps DEF Kept
<1>5. <<type>> \in Seq(Nat)
  BY TextTypes
<1>6. x.ok /\ Begins(x.buf, Put(x, <<type>>).buf) /\ Put(x, <<type>>).buf = x.buf \o <<type>>
  <2> HIDE DEF x
  <2>1. Put(x, <<type>>).ok = x.ok
    BY <1>4, <1>5, PutIs
  <2>2. Put(x, <<type>>).ok
    BY DEF x, text
  <2> QED  BY <1>4, <1>5, <2>1, <2>2, PutIs
<1>7. Writable(L)
  <2> SUFFICES ASSUME ~Writable(L)  PROVE FALSE
    OBVIOUS
  <2>1. x = Failed(w)
    BY <1>3
  <2>2. ~Failed(w).ok
    BY <1>1 DEF Failed, Writer
  <2> HIDE DEF x
  <2> QED  BY <1>6, <2>1, <2>2
<1>8. Len(L) \in 0 .. Len(L) /\ all \in Seq(Nat) /\ <<0>> \in Seq(Nat)
  <2>1. Len(L) \in 0 .. Len(L)
    BY <1>1, LabelListTypes
  <2> QED  BY <1>1, <2>1, LabelCellsNext, TextTypes
<1>9. x.buf = (C \o all) \o <<0>>
  <2>1. WriteLabels(w, L, Len(L), <<0>>).buf = (w.buf \o LabelCells(L, Len(L))) \o <<0>>
    BY <1>1, <1>8, WriteLabelsIs
  <2> QED  BY <1>2, <1>3, <1>7, <2>1
<1> HIDE DEF all, x
<1>10. (C \o all) \o <<0>> = C \o (all \o <<0>>)
  BY <1>1, <1>8, TextAssoc
<1>11. Opening = C \o (all \o <<0>>)
  BY DEF Opening, C, all, L
<1>12. Begins(Opening, Put(x, <<type>>).buf)
  BY <1>6, <1>9, <1>10, <1>11
<1> QED  BY <1>7, <1>12 DEF x, text, L

-------------------------------------------------------------------------------

(* A step that writes more and is not at a field afterwards.               *)
LEMMA WriterMoves ==
    ASSUME WriteInv, OpenInv, Kept(w, w'), UNCHANGED <<sent, lenPos>>, epc \in {"question", "record", "field"},
           todo' \in [questions : Seq(Question), records : Seq(Record), items : Seq(Item)],
           epc' \in {epc, "unencodable"} \/ (epc = "record" /\ epc' = "encoded"),
           sent.questions # <<>> /\ epc = "question" /\ epc' = "question" /\ NothingWritten => Opened'
    PROVE  WriteInv' /\ OpenInv'
<1>0. w \in Writer /\ w' \in Writer /\ Begins(w.buf, w'.buf)
  BY DEF WriteInv, Kept
<1>1. w.buf \in Seq(Nat) /\ w'.buf \in Seq(Nat)
  BY <1>0 DEF Writer, Text, Cell
<1>2. Len(w.buf) \in Nat /\ Len(w'.buf) \in Nat /\ Len(w.buf) <= Len(w'.buf)
  BY <1>0, <1>1, LenProperties DEF Begins
<1>3. WriteInv'
  <2>1. epc' = "field" => epc = "field"
    OBVIOUS
  <2>2. epc' = "field" => lenPos' \in 1 .. Len(w'.buf)
    BY <1>2, <2>1 DEF WriteInv
  <2> QED  BY <1>0, <2>2 DEF WriteInv
<1>4. ASSUME sent.questions # <<>>
      PROVE  /\ epc' = "question" => Opened' \/ NothingWritten'
             /\ epc' \in {"record", "field", "encoded"} => Opened'
             /\ epc' = "field" => lenPos' > Len(Opening')
  <2>1. Opened => Opened'
    BY <1>4, StaysOpened
  <2>2. Opening' = Opening
    BY DEF Opening, FirstLabels
  <2>3. /\ epc = "question" => Opened \/ NothingWritten
        /\ epc \in {"record", "field"} => Opened
        /\ epc = "field" => lenPos > Len(Opening)
    BY <1>4 DEF OpenInv
  <2> QED  BY <1>4, <2>1, <2>2, <2>3
<1> QED  BY <1>3, <1>4 DEF OpenInv

(* Every step of the encoder keeps its types and the opening, SetLength    *)
(* included: the length it patches comes after the opening.                *)
LEMMA EncoderKeeps == WriteInv /\ OpenInv /\ EncoderNext => WriteInv' /\ OpenInv'
<1> SUFFICES ASSUME WriteInv, OpenInv, EncoderNext  PROVE WriteInv' /\ OpenInv'
  OBVIOUS
<1> DEFINE Todo == [questions : Seq(Question), records : Seq(Record), items : Seq(Item)]
<1>t. sent \in Message /\ todo \in Todo /\ w \in Writer /\ lenPos \in Nat
  BY DEF WriteInv
<1>b. /\ todo.questions \in Seq(Question) /\ todo.records \in Seq(Record) /\ todo.items \in Seq(Item)
      /\ w.buf \in Seq(Nat) /\ Len(w.buf) \in Nat
  BY <1>t, LenProperties DEF Writer, Text, Cell
<1>w. Kept(w, w)
  BY <1>t, <1>b, BeginsIs DEF Kept
<1>1. CASE EncodeQuestion
  <2> DEFINE q == Head(todo.questions)
             x == WriteName(w, q.name)
             y == Put(x, <<q.type>>)
  <2>1. /\ q \in Question /\ Tail(todo.questions) \in Seq(Question) /\ q = todo.questions[1]
    BY <1>1, <1>b, HeadTailProperties DEF EncodeQuestion
  <2>2. q.name \in Seq(Nat) /\ q.type \in Nat /\ <<q.type>> \in Seq(Nat)
    BY <2>1, TextTypes DEF Question, Text, Cell
  <2>3. /\ w' = y /\ epc = "question" /\ epc' = (IF y.ok THEN "question" ELSE "unencodable")
        /\ UNCHANGED <<sent, lenPos>> /\ todo' = [todo EXCEPT !.questions = Tail(@)]
    BY <1>1 DEF EncodeQuestion, Write
  <2>4. Kept(w, x)
    BY <1>t, <2>2, WriteNameKeeps
  <2> HIDE DEF x
  <2>5. y \in Writer /\ Begins(x.buf, y.buf)
    BY <2>2, <2>4, PutIs DEF Kept
  <2>6. Kept(w, y)
    <3> HIDE DEF y
    <3>1. x.buf \in Seq(Nat) /\ y.buf \in Seq(Nat) /\ Begins(w.buf, x.buf)
      BY <2>4, <2>5 DEF Kept, Writer, Text, Cell
    <3>2. Begins(w.buf, y.buf)
      BY <1>b, <2>5, <3>1, BeginsIs
    <3> QED  BY <2>5, <3>2 DEF Kept
  <2>7. todo' \in Todo
    <3> HIDE DEF q, y
    <3> QED  BY <1>t, <2>1, <2>3
  <2>8. ASSUME sent.questions # <<>>, epc' = "question", NothingWritten  PROVE Opened'
    <3>1. q = sent.questions[1]
      BY <2>1, <2>8 DEF NothingWritten
    <3>2. Put(WriteName(w, sent.questions[1].name), <<q.type>>) = y /\ y.ok
      <4>1. Put(WriteName(w, sent.questions[1].name), <<q.type>>) = y
        BY <3>1 DEF x
      <4> HIDE DEF y
      <4> QED  BY <2>3, <2>8, <4>1
    <3>3. Writable(FirstLabels) /\ Begins(Opening, y.buf)
      <4> HIDE DEF y, q
      <4> QED  BY <2>2, <2>8, <3>2, FirstIsWritten
    <3>4. Opening' = Opening /\ FirstLabels' = FirstLabels /\ Writable(FirstLabels)' = Writable(FirstLabels)
      BY <2>3 DEF Opening, FirstLabels, Writable, TextLength
    <3> HIDE DEF y
    <3> QED  BY <2>3, <3>3, <3>4 DEF Opened
  <2> HIDE DEF y
  <2> QED  BY <2>3, <2>6, <2>7, <2>8, WriterMoves
<1>2. CASE EndQuestions
  <2>1. w' = w /\ epc = "question" /\ epc' \in {"record", "unencodable"} /\ UNCHANGED <<sent, todo, lenPos>> /\ todo.questions = <<>>
    BY <1>2 DEF EndQuestions, Write
  <2>2. WriteInv'
    BY <2>1 DEF WriteInv
  <2>3. ASSUME sent.questions # <<>>  PROVE Opened'
    <3>1. Opened
      BY <2>1, <2>3 DEF OpenInv, NothingWritten
    <3> QED  BY <1>w, <2>1, <2>3, <3>1, StaysOpened
  <2> QED  BY <2>1, <2>2, <2>3 DEF OpenInv
<1>3. CASE EncodeResourceRecord
  <2> DEFINE r == Head(todo.records)
             x == WriteName(w, r.name)
             y == Put(x, <<r.type, 0>>)
             items == IF r.parsed THEN r.data ELSE <<[op |-> "rest", value |-> r.raw]>>
  <2>1. r \in Record /\ Tail(todo.records) \in Seq(Record)
    BY <1>3, <1>b, HeadTailProperties DEF EncodeResourceRecord
  <2>2. r.name \in Seq(Nat) /\ r.type \in Nat /\ <<r.type, 0>> \in Seq(Nat) /\ Len(<<r.type, 0>>) = 2
    BY <2>1 DEF Record, Text, Cell
  <2>3. /\ w' = y /\ epc = "record" /\ epc' \in {"field", "unencodable"}
        /\ UNCHANGED sent /\ todo' = [todo EXCEPT !.records = Tail(@), !.items = items] /\ lenPos' = Len(w'.buf)
    BY <1>3 DEF EncodeResourceRecord, Write
  <2>4. Kept(w, x)
    BY <1>t, <2>2, WriteNameKeeps
  <2>5. items \in Seq(Item)
    <3>1. [op |-> "rest", value |-> r.raw] \in Item
      BY <2>1 DEF Item, Record, Text, Cell
    <3>2. <<[op |-> "rest", value |-> r.raw]>> \in Seq(Item)
      BY <3>1
    <3>3. r.data \in Seq(Item)
      BY <2>1 DEF Record
    <3> QED  BY <3>2, <3>3
  <2> HIDE DEF x, items
  <2>6. y \in Writer /\ Begins(x.buf, y.buf) /\ y.buf = x.buf \o <<r.type, 0>>
    BY <2>2, <2>4, PutIs DEF Kept
  <2> HIDE DEF y, r
  <2>7. x.buf \in Seq(Nat) /\ y.buf \in Seq(Nat) /\ Begins(w.buf, x.buf)
    BY <2>4, <2>6 DEF Kept, Writer, Text, Cell
  <2>8. Kept(w, y)
    <3>1. Begins(w.buf, y.buf)
      BY <1>b, <2>6, <2>7, BeginsIs
    <3> QED  BY <2>6, <3>1 DEF Kept
  <2>9. Len(x.buf) \in Nat /\ Len(y.buf) = Len(x.buf) + 2 /\ Len(w.buf) <= Len(x.buf)
    BY <2>2, <2>6, <2>7, ConcatProperties, LenProperties DEF Begins
  <2>10. WriteInv'
    <3>1. todo' \in Todo
      BY <1>t, <2>1, <2>3, <2>5
    <3>2. lenPos' \in 1 .. Len(w'.buf)
      BY <2>3, <2>9
    <3>3. lenPos' \in Nat /\ sent' \in Message /\ w' \in Writer
      BY <1>t, <2>3, <2>6, <2>9
    <3> QED  BY <3>1, <3>2, <3>3 DEF WriteInv
  <2>11. ASSUME sent.questions # <<>>  PROVE Opened' /\ lenPos' > Len(Opening')
    <3>1. Opened
      BY <2>3, <2>11 DEF OpenInv
    <3>2. Opened'
      BY <2>3, <2>8, <2>11, <3>1, StaysOpened
    <3>3. Opening' = Opening /\ Opening \in Seq(Nat)
      BY <1>t, <2>3, <2>11, OpeningIs DEF Opening, FirstLabels
    <3>4. Len(Opening) \in Nat /\ Len(Opening) <= Len(w.buf)
      BY <3>1, <3>3, LenProperties DEF Opened, Begins
    <3> QED  BY <1>b, <2>3, <2>9, <3>2, <3>3, <3>4
  <2> QED  BY <2>3, <2>10, <2>11 DEF OpenInv
<1>4. CASE EncodeRData
  <2> DEFINE i == Head(todo.items)
             y == WriteItem(w, i)
  <2>1. i \in Item /\ Tail(todo.items) \in Seq(Item)
    BY <1>4, <1>b, HeadTailProperties DEF EncodeRData
  <2>2. /\ w' = y /\ epc = "field" /\ epc' \in {"field", "unencodable"}
        /\ UNCHANGED <<sent, lenPos>> /\ todo' = [todo EXCEPT !.items = Tail(@)]
    BY <1>4 DEF EncodeRData, Write
  <2>3. Kept(w, y)
    BY <1>t, <2>1, WriteItemKeeps
  <2> HIDE DEF i, y
  <2>4. todo' \in Todo
    BY <1>t, <2>1, <2>2
  <2> QED  BY <2>2, <2>3, <2>4, WriterMoves
<1>5. CASE SetLength
  <2> DEFINE e == Len(w.buf) - lenPos
             buf == [w.buf EXCEPT ![lenPos] = e]
             y == [w EXCEPT !.buf = buf]
  <2>1. /\ w' = [w EXCEPT !.buf[lenPos] = Len(w.buf) - lenPos] /\ epc = "field" /\ epc' \in {"record", "unencodable"}
        /\ UNCHANGED <<sent, todo, lenPos>>
    BY <1>5 DEF SetLength, Write
  <2>2. w' = y
    BY <1>t, <2>1 DEF Writer
  <2>3. lenPos \in 1 .. Len(w.buf) /\ e \in Nat
    BY <1>b, <2>1 DEF WriteInv
  <2> HIDE DEF e
  <2>4. /\ buf \in Seq(Nat) /\ Len(buf) = Len(w.buf)
        /\ \A j \in 1 .. Len(w.buf) : buf[j] = IF j = lenPos THEN e ELSE w.buf[j]
    BY <1>b, <2>3, ExceptSeq
  <2> HIDE DEF buf
  <2>5. y \in Writer /\ y.buf = buf
    BY <1>t, <2>4 DEF Writer, Text, Cell
  <2>6. WriteInv'
    BY <1>t, <2>1, <2>2, <2>5 DEF WriteInv
  <2>7. ASSUME sent.questions # <<>>  PROVE Opened'
    <3>1. Opened /\ lenPos > Len(Opening)
      BY <2>1, <2>7 DEF OpenInv
    <3>2. /\ Opening' = Opening /\ FirstLabels' = FirstLabels /\ Writable(FirstLabels)' = Writable(FirstLabels)
          /\ Opening \in Seq(Nat)
      BY <1>t, <2>1, <2>7, OpeningIs DEF Opening, FirstLabels, Writable, TextLength
    <3>3. Len(Opening) \in Nat /\ Len(Opening) <= Len(w.buf) /\ \A j \in 1 .. Len(Opening) : Opening[j] = w.buf[j]
      BY <3>1, <3>2, LenProperties DEF Opened, Begins
    <3>4. \A j \in 1 .. Len(Opening) : j # lenPos /\ j \in 1 .. Len(w.buf)
      BY <1>t, <1>b, <3>1, <3>3
    <3>5. Begins(Opening, buf)
      BY <1>b, <2>4, <3>3, <3>4 DEF Begins
    <3> HIDE DEF y
    <3> QED  BY <2>2, <2>5, <3>1, <3>2, <3>5 DEF Opened
  <2> QED  BY <2>1, <2>6, <2>7 DEF OpenInv
<1>6. CASE EndEncode
  <2> DEFINE ok == Len(w.buf) <= MaxPacketLen
             y == [w EXCEPT !.ok = ok]
  <2>1. w' = y /\ epc = "record" /\ epc' \in {"encoded", "unencodable"} /\ UNCHANGED <<sent, todo, lenPos>>
    BY <1>6 DEF EndEncode, Write
  <2>2. ok \in BOOLEAN
    OBVIOUS
  <2> HIDE DEF ok
  <2>3. y \in Writer /\ y.buf = w.buf
    BY <1>t, <2>2 DEF Writer
  <2> HIDE DEF y
  <2>4. Kept(w, w')
    BY <1>b, <2>1, <2>3, BeginsIs DEF Kept
  <2> QED  BY <1>t, <2>1, <2>4, WriterMoves
<1> QED  BY <1>1, <1>2, <1>3, <1>4, <1>5, <1>6 DEF EncoderNext

-------------------------------------------------------------------------------

(* What the decoder has found of the opening.                              *)
LabelsRead ==
    LET k == Len(nm.labels) IN
    /\ k <= Len(FirstLabels)
    /\ \A i \in 1 .. k : nm.labels[i] = FirstLabels[i]
    /\ nm.curr = 2 + Len(LabelCells(FirstLabels, k))

FirstIsRead == msg.questions # <<>> /\ msg.questions[1].name = Join(FirstLabels)

EchoInv ==
    \/ pc = "error"
    \/ pc = "start" /\ msg.questions = <<>>
    \/ pc = "section" /\ off = 2 /\ left.questions > 0 /\ msg.questions = <<>>
    \/ pc = "name" /\ nm.user = "question" /\ msg.questions = <<>> /\ LabelsRead
    \/ pc = "named" /\ nm.user = "question" /\ msg.questions = <<>> /\ nm.labels = FirstLabels
    \/ pc = "badname" /\ nm.user = "question"
    \/ FirstIsRead

(* The packet at hand is the one that was written.                         *)
Arrived ==
    /\ sent \in Message /\ sent.questions # <<>>
    /\ Writable(FirstLabels) /\ Begins(Opening, packet)

(* The cells of the packet: the count of questions, the labels and 0.      *)
LEMMA OpeningCells ==
    ASSUME Arrived, packet \in Seq(Nat)
    PROVE  LET all == LabelCells(FirstLabels, Len(FirstLabels)) IN
           /\ Len(all) \in Nat /\ 2 + Len(all) < Size
           /\ At(0) = Len(sent.questions)
           /\ \A i \in 1 .. Len(all) : packet[2 + i] = all[i]
           /\ At(2 + Len(all)) = 0
<1> DEFINE all == LabelCells(FirstLabels, Len(FirstLabels))
           C == NormalizeCounts(sent)
           tail == all \o <<0>>
<1>1. /\ FirstLabels \in LabelLists /\ C \in Seq(Nat) /\ Len(C) = 2 /\ C[1] = Len(sent.questions)
      /\ Opening \in Seq(Nat)
  BY OpeningIs DEF Arrived
<1>2. all \in Seq(Nat)
  <2>1. Len(FirstLabels) \in 0 .. Len(FirstLabels)
    BY <1>1, LabelListTypes
  <2> QED  BY <1>1, <2>1, LabelCellsNext
<1>3. Opening = C \o tail
  BY DEF Opening
<1> HIDE DEF all, C
<1>4. <<0>> \in Seq(Nat) /\ Len(<<0>>) = 1 /\ <<0>>[1] = 0 /\ Len(all) \in Nat
  BY <1>2, TextTypes
<1>5. /\ tail \in Seq(Nat) /\ Len(tail) = Len(all) + 1
      /\ \A i \in 1 .. Len(all) + 1 : tail[i] = IF i <= Len(all) THEN all[i] ELSE <<0>>[i - Len(all)]
  BY <1>2, <1>4, ConcatProperties
<1>6. tail[Len(all) + 1] = 0 /\ \A i \in 1 .. Len(all) : tail[i] = all[i]
  <2> HIDE DEF tail
  <2>1. /\ Len(all) + 1 \in 1 .. Len(all) + 1 /\ ~(Len(all) + 1 <= Len(all)) /\ (Len(all) + 1) - Len(all) = 1
        /\ \A i \in 1 .. Len(all) : i \in 1 .. Len(all) + 1 /\ i <= Len(all)
    BY <1>4
  <2> QED  BY <1>4, <1>5, <2>1
<1> HIDE DEF tail
<1>7. /\ Len(Opening) = 2 + (Len(all) + 1)
      /\ \A i \in 1 .. 2 + (Len(all) + 1) : Opening[i] = IF i <= 2 THEN C[i] ELSE tail[i - 2]
  <2>1. /\ Len(C \o tail) = Len(C) + Len(tail)
        /\ \A i \in 1 .. Len(C) + Len(tail) : (C \o tail)[i] = IF i <= Len(C) THEN C[i] ELSE tail[i - Len(C)]
    BY <1>1, <1>5, TextConcat
  <2>2. Len(C) + Len(tail) = 2 + (Len(all) + 1) /\ Len(C) = 2
    BY <1>1, <1>5
  <2> QED  BY <1>3, <2>1, <2>2
<1>8. Len(packet) \in Nat /\ 2 + (Len(all) + 1) <= Len(packet) /\ \A i \in 1 .. 2 + (Len(all) + 1) : Opening[i] = packet[i]
  BY <1>7, LenProperties DEF Arrived, Begins
<1>9. ASSUME NEW i \in 1 .. Len(all) + 1  PROVE packet[2 + i] = tail[i]
  <2>1. 2 + i \in 1 .. 2 + (Len(all) + 1) /\ ~(2 + i <= 2) /\ (2 + i) - 2 = i
    BY <1>4
  <2> QED  BY <1>7, <1>8, <2>1
<1>10. At(0) = Len(sent.questions)
  <2>1. 0 + 1 = 1 /\ 1 \in 1 .. 2 + (Len(all) + 1) /\ 1 <= 2
    BY <1>4
  <2> QED  BY <1>1, <1>7, <1>8, <2>1 DEF At
<1>11. \A i \in 1 .. Len(all) : packet[2 + i] = all[i]
  BY <1>4, <1>6, <1>9
<1>12. At(2 + Len(all)) = 0
  <2>1. Len(all) + 1 \in 1 .. Len(all) + 1 /\ 2 + (Len(all) + 1) = (2 + Len(all)) + 1
    BY <1>4
  <2>2. packet[2 + (Len(all) + 1)] = 0
    BY <1>6, <1>9, <2>1
  <2> QED  BY <2>1, <2>2 DEF At
<1>13. 2 + Len(all) < Size
  BY <1>4, <1>8 DEF Size
<1> QED  BY <1>4, <1>10, <1>11, <1>12, <1>13 DEF all

(* The cells between two offsets of the packet.                            *)
LEMMA CellsAre ==
    ASSUME packet \in Seq(Nat), NEW from \in Nat, NEW n \in Nat, from + n <= Len(packet)
    PROVE  /\ Cells(from, from + n) \in Seq(Nat) /\ Len(Cells(from, from + n)) = n
           /\ \A i \in 1 .. n : Cells(from, from + n)[i] = packet[from + i]
<1> DEFINE a == from + 1
           b == from + n
           s == SubSeq(packet, a, b)
<1>0. Len(packet) \in Nat
  BY LenProperties
<1>1. a \in Nat /\ b \in Nat /\ \A i \in a .. b : i \in 1 .. Len(packet)
  BY <1>0
<1>2. \A i \in a .. b : packet[i] \in Nat
  BY <1>1, ElementOfSeq
<1>3. /\ s \in Seq(Nat) /\ Len(s) = (IF a <= b THEN b - a + 1 ELSE 0)
      /\ \A i \in 1 .. b - a + 1 : s[i] = packet[a + i - 1]
  <2> HIDE DEF a, b
  <2> QED  BY <1>1, <1>2, SubSeqProperties
<1>4. b - a + 1 = n /\ Len(s) = n /\ \A i \in 1 .. n : a + i - 1 = from + i
  BY <1>3
<1> HIDE DEF a, b, s
<1>5. \A i \in 1 .. n : s[i] = packet[from + i]
  BY <1>3, <1>4
<1> QED  BY <1>3, <1>4, <1>5 DEF Cells, s, a, b

(* The label that comes next is in the packet where it is expected.        *)
LEMMA NextLabel ==
    ASSUME Arrived, packet \in Seq(Nat), nm \in NameType, LabelsRead, Len(nm.labels) < Len(FirstLabels)
    PROVE  LET k == Len(nm.labels)
               l == FirstLabels[k + 1]
           IN  /\ k \in Nat /\ l \in Seq(Nat) /\ Len(l) \in 1 .. MaxLabelLength
               /\ Octet = Len(l)
               /\ Cells(nm.curr + 1, nm.curr + 1 + Len(l)) = l
               /\ nm.curr + 1 + Len(l) = 2 + Len(LabelCells(FirstLabels, k + 1))
<1> DEFINE k == Len(nm.labels)
           L == FirstLabels
           l == L[k + 1]
           at == Len(LabelCells(L, k))
           all == LabelCells(L, Len(L))
           from == nm.curr + 1
<1>0. L \in LabelLists
  BY OpeningIs DEF Arrived
<1>1. k \in Nat /\ Len(L) \in Nat /\ k < Len(L) /\ k + 1 \in 1 .. Len(L)
  <2>1. nm.labels \in Seq(Seq(Nat))
    BY DEF NameType
  <2> QED  BY <1>0, <2>1, LenProperties, LabelListTypes
<1>2. l \in Seq(Nat)
  BY <1>0, <1>1, LabelListTypes
<1>3. Len(l) \in 1 .. MaxLabelLength
  <2>1. k + 1 \in DOMAIN L
    BY <1>0, <1>1, LabelListTypes
  <2> QED  BY <2>1 DEF Arrived, Writable
<1>4. /\ Len(all) \in Nat
      /\ \A i \in 1 .. Len(all) : packet[2 + i] = all[i]
      /\ Len(packet) \in Nat /\ 2 + Len(all) < Len(packet)
  BY OpeningCells, CellType DEF Size
<1>5. /\ at \in Nat /\ Len(l) \in Nat
      /\ Len(LabelCells(L, k + 1)) = (at + 1) + Len(l)
      /\ (at + 1) + Len(l) <= Len(all)
      /\ all[at + 1] = Len(l)
      /\ \A i \in 1 .. Len(l) : all[(at + 1) + i] = l[i]
  <2>1. k \in Nat /\ Len(L) \in Nat /\ k < Len(L) /\ Len(L) <= Len(L)
    BY <1>1
  <2> HIDE DEF L, k
  <2> QED  BY <1>0, <2>1, LabelAt
<1>6. nm.curr = 2 + at
  BY DEF LabelsRead
<1> HIDE DEF L, k, l, at, all
<1>7. Octet = Len(l)
  <2>1. at + 1 \in 1 .. Len(all) /\ nm.curr + 1 = 2 + (at + 1)
    BY <1>3, <1>4, <1>5, <1>6
  <2>2. packet[2 + (at + 1)] = Len(l)
    BY <1>4, <1>5, <2>1
  <2> QED  BY <2>1, <2>2 DEF Octet, At
<1>8. nm.curr + 1 + Len(l) = 2 + Len(LabelCells(L, k + 1))
  <2> DEFINE b == Len(l)
             c == Len(LabelCells(L, k + 1))
  <2>1. at \in Nat /\ b \in Nat /\ c = (at + 1) + b /\ nm.curr = 2 + at
    BY <1>5, <1>6
  <2> HIDE DEF b, c
  <2>2. nm.curr + 1 + b = 2 + c
    BY <2>1
  <2> QED  BY <2>2 DEF b, c
<1>9. Cells(from, from + Len(l)) = l
  <2> DEFINE s == SubSeq(packet, from + 1, from + Len(l))
  <2>1. from = 2 + (at + 1) /\ from \in Nat /\ from + Len(l) \in Nat /\ from + Len(l) <= Len(packet)
    <3>1. \A a, b, c, d \in Nat : (a + 1) + b <= c /\ 2 + c < d =>
            (2 + a) + 1 = 2 + (a + 1) /\ (2 + (a + 1)) + b <= d /\ 2 + (a + 1) \in Nat /\ (2 + (a + 1)) + b \in Nat
      OBVIOUS
    <3> QED  BY <1>4, <1>5, <1>6, <3>1
  <2> HIDE DEF from
  <2>2. \A i \in from + 1 .. from + Len(l) : packet[i] \in Nat
    <3>1. \A i \in from + 1 .. from + Len(l) : i \in 1 .. Len(packet)
      BY <1>4, <1>5, <2>1
    <3> QED  BY <3>1, ElementOfSeq
  <2>3. /\ s \in Seq(Nat)
        /\ Len(s) = Len(l) /\ \A i \in 1 .. Len(l) : s[i] = packet[from + i]
    <3>1. s \in Seq(Nat)
      BY <2>1, CellsAre DEF Cells
    <3> QED  BY <1>5, <2>1, CellsAre DEF Cells
  <2>4. ASSUME NEW i \in 1 .. Len(l)  PROVE s[i] = l[i]
    <3>1. (at + 1) + i \in 1 .. Len(all) /\ from + i = 2 + ((at + 1) + i)
      BY <1>4, <1>5, <2>1
    <3>2. packet[2 + ((at + 1) + i)] = l[i]
      BY <1>4, <1>5, <3>1
    <3> HIDE DEF s
    <3> QED  BY <2>3, <3>1, <3>2
  <2>5. s = l
    <3> HIDE DEF s
    <3> QED  BY <1>2, <2>3, <2>4, SeqEqual
  <2> QED  BY <2>5 DEF Cells
<1> QED  BY <1>1, <1>2, <1>3, <1>7, <1>8, <1>9 DEF L, k, l

-------------------------------------------------------------------------------

(* The first question stays the first when questions are added.            *)
LEMMA FirstStays ==
    ASSUME ReadInv, FirstIsRead, UNCHANGED sent,
           \/ msg'.questions = msg.questions
           \/ \E q \in Question : msg'.questions = Append(msg.questions, q)
    PROVE  FirstIsRead'
<1>1. FirstLabels' = FirstLabels /\ Join(FirstLabels)' = Join(FirstLabels)
  BY DEF FirstLabels, Join
<1>2. msg.questions \in Seq(Question)
  BY DEF ReadInv, Message, Question
<1>3. CASE msg'.questions = msg.questions
  BY <1>1, <1>3 DEF FirstIsRead
<1>4. ASSUME NEW q \in Question, msg'.questions = Append(msg.questions, q)  PROVE FirstIsRead'
  <2>1. Len(msg.questions) \in Nat /\ Len(msg.questions) # 0
    BY <1>2, EmptySeq, LenProperties DEF FirstIsRead
  <2>2. 1 \in 1 .. Len(msg.questions)
    BY <2>1
  <2>3. Append(msg.questions, q) # <<>> /\ Append(msg.questions, q)[1] = msg.questions[1]
    BY <1>2, <1>4, <2>2, AppendProperties
  <2> QED  BY <1>1, <1>4, <2>3 DEF FirstIsRead
<1> QED  BY <1>3, <1>4

(* Whatever the decoder does, it adds to the questions or leaves them.     *)
LEMMA QuestionsGrow ==
    ASSUME IInv, ReadInv, Next
    PROVE  \/ msg'.questions = msg.questions
           \/ \E q \in Question : msg'.questions = Append(msg.questions, q)
<1>t. msg \in Message
  BY DEF ReadInv
<1>r. ASSUME NEW parsed, EndRecord(parsed)  PROVE msg'.questions = msg.questions
  BY <1>r, <1>t DEF EndRecord, Message
<1>1. CASE DecodeHeader \/ NextQuestion \/ NextRecord \/ Finish
  BY <1>1 DEF DecodeHeader, NextQuestion, NextRecord, Finish
<1>2. CASE decodeName
  BY <1>2, <1>r DEF decodeName, FollowPointer, ReadLabel, NameEnds, NameFails, BadName
<1>3. CASE EndQuestion
  <2>1. CASE UNCHANGED msg
    BY <2>1
  <2>2. CASE /\ nm.next + QuestionFixed <= Size
             /\ msg' = [msg EXCEPT !.questions = Append(@, [name |-> Join(nm.labels), type |-> At(nm.next)])]
    <3> DEFINE q == [name |-> Join(nm.labels), type |-> At(nm.next)]
    <3>1. nm.labels \in LabelLists /\ nm.next \in Nat /\ packet \in Seq(Nat)
      BY <1>3 DEF IInv, NameType, LabelLists, EndQuestion
    <3>2. Join(nm.labels) \in Seq(Nat)
      BY <3>1, JoinType
    <3>3. At(nm.next) \in Nat
      BY <2>2, <3>1, CellType DEF QuestionFixed
    <3>4. q \in Question
      BY <3>2, <3>3 DEF Question, Text, Cell
    <3>5. msg' = [msg EXCEPT !.questions = Append(@, q)]
      BY <2>2
    <3> HIDE DEF q
    <3>6. msg'.questions = Append(msg.questions, q)
      BY <1>t, <3>5 DEF Message
    <3> QED  BY <3>4, <3>6
  <2> QED  BY <1>3, <2>1, <2>2 DEF EndQuestion
<1>4. CASE StartRecord
  BY <1>4 DEF StartRecord
<1>5. CASE parseRData
  <2>1. CASE CheckLength
    BY <2>1, <1>r DEF CheckLength
  <2>2. CASE ReadNumbers \/ ReadName \/ EndRDataName \/ EndStrings \/ ReadRest
    BY <2>2 DEF ReadNumbers, ReadName, EndRDataName, EndStrings, ReadRest
  <2>3. CASE ReadCounted
    BY <2>3, <1>r DEF ReadCounted
  <2>4. CASE ReadString
    BY <2>4, <1>r DEF ReadString
  <2>5. CASE EndFields
    BY <2>5, <1>r DEF EndFields
  <2> QED  BY <1>5, <2>1, <2>2, <2>3, <2>4, <2>5 DEF parseRData
<1> QED  BY <1>1, <1>2, <1>3, <1>4, <1>5 DEF Next

(* Where the decoder is tells what it can do next.                         *)
LEMMA WhichStep ==
    ASSUME Next
    PROVE  /\ pc \notin Ended
           /\ pc = "start" => DecodeHeader
           /\ pc = "section" => NextQuestion \/ NextRecord \/ Finish
           /\ pc = "name" => FollowPointer \/ ReadLabel \/ NameEnds \/ NameFails
           /\ pc = "named" => EndQuestion \/ StartRecord \/ EndRDataName
           /\ pc = "badname" => BadName
           /\ pc = "field" => \/ CheckLength \/ ReadNumbers \/ ReadName \/ ReadCounted \/ ReadString
                             \/ EndStrings \/ ReadRest \/ EndFields
BY DEF Next, DecodeHeader, NextQuestion, NextRecord, Finish, decodeName, FollowPointer, ReadLabel, NameEnds,
       NameFails, BadName, EndQuestion, StartRecord, parseRData, CheckLength, ReadNumbers, ReadName, EndRDataName,
       ReadCounted, ReadString, EndStrings, ReadRest, EndFields, AtField, Ended

(* The decoder reads the opening as it was written, label by label, and    *)
(* keeps the question.                                                     *)
LEMMA EchoStep ==
    ASSUME IInv, ReadInv, Arrived, EchoInv, Next, UNCHANGED sent
    PROVE  EchoInv'
<1> DEFINE L == FirstLabels
           all == LabelCells(L, Len(L))
<1>0. L' = L /\ Join(L)' = Join(L) /\ \A k \in Nat : LabelCells(L, k)' = LabelCells(L, k)
  BY DEF FirstLabels, Join, LabelCells
<1>t. /\ packet \in Seq(Nat) /\ nm \in NameType /\ nm.labels \in Seq(Seq(Nat)) /\ nm.curr \in Nat
      /\ Len(nm.labels) \in Nat /\ msg \in Message
  BY LenProperties DEF IInv, NameType, ReadInv
<1>l. L \in LabelLists /\ Len(L) \in Nat
  BY OpeningIs, LabelListTypes DEF Arrived
<1>o. /\ Len(all) \in Nat /\ 2 + Len(all) < Size /\ Size \in Nat
      /\ At(0) = Len(sent.questions)
      /\ At(2 + Len(all)) = 0
  BY <1>t, OpeningCells, CellType
<1>1. CASE pc = "error"
  BY <1>1, WhichStep DEF Ended
<1>2. CASE pc = "start" /\ msg.questions = <<>>
  <2>1. DecodeHeader
    BY <1>2, WhichStep
  <2>2. UNCHANGED msg
    BY <2>1 DEF DecodeHeader
  <2>3. Len(sent.questions) \in Nat /\ Len(sent.questions) # 0
    BY EmptySeq, LenProperties DEF Arrived, Message
  <2>4. pc' = "error" \/ (pc' = "section" /\ off' = 2 /\ left' = HeaderCounts)
    BY <2>1 DEF DecodeHeader, Goto, HeaderSize
  <2>5. HeaderCounts.questions = Len(sent.questions)
    BY <1>o DEF HeaderCounts
  <2>6. HeaderCounts.questions > 0
    BY <2>3, <2>5
  <2> QED  BY <1>2, <2>2, <2>4, <2>6 DEF EchoInv
<1>3. CASE pc = "section" /\ off = 2 /\ left.questions > 0 /\ msg.questions = <<>>
  <2>1. NextQuestion
    BY <1>3, WhichStep DEF NextRecord, Finish
  <2>2. /\ pc' \in {"name", "badname"} /\ UNCHANGED msg
        /\ nm'.user = "question" /\ nm'.labels = <<>> /\ nm'.curr = 2
    BY <1>3, <2>1 DEF NextQuestion, CallName, Goto, NoName
  <2>3. LabelCells(L, 0) = <<>> /\ Len(<<>>) = 0 /\ LabelCells(L, 0)' = LabelCells(L, 0)
    BY <1>0, <1>l, LabelCellsNext
  <2>4. LabelsRead'
    <3>1. Len(nm'.labels) = 0 /\ 0 <= Len(L')
      BY <1>0, <1>l, <2>2, <2>3
    <3>2. nm'.curr = 2 + Len(LabelCells(L', 0))
      BY <2>2, <2>3
    <3> QED  BY <3>1, <3>2 DEF LabelsRead
  <2> QED  BY <1>3, <2>2, <2>4 DEF EchoInv
<1>4. CASE pc = "name" /\ nm.user = "question" /\ msg.questions = <<>> /\ LabelsRead
  <2> DEFINE k == Len(nm.labels)
  <2>1. FollowPointer \/ ReadLabel \/ NameEnds \/ NameFails
    BY <1>4, WhichStep
  <2>2. CASE NameFails
    BY <1>4, <2>2 DEF NameFails, Goto, EchoInv
  <2>3. CASE k < Len(L)
    <3> DEFINE l == L[k + 1]
    <3>1. /\ l \in Seq(Nat) /\ Len(l) \in 1 .. MaxLabelLength
          /\ Octet = Len(l) /\ Cells(nm.curr + 1, nm.curr + 1 + Len(l)) = l
          /\ nm.curr + 1 + Len(l) = 2 + Len(LabelCells(L, k + 1))
      BY <1>4, <1>t, <2>3, NextLabel
    <3> HIDE DEF l
    <3>2. Octet # 0 /\ Octet \div 64 # 3
      <4>1. Octet \in 1 .. 63
        BY <3>1 DEF MaxLabelLength
      <4> HIDE DEF k
      <4> QED  BY <4>1
    <3>3. CASE ReadLabel
      <4>1. nm' = [nm EXCEPT !.labels = Append(@, l), !.curr = 2 + Len(LabelCells(L, k + 1))] /\ UNCHANGED <<pc, msg>>
        BY <3>1, <3>3, <1>t DEF ReadLabel, NameType
      <4>2. /\ nm'.labels = Append(nm.labels, l) /\ nm'.curr = 2 + Len(LabelCells(L, k + 1))
            /\ nm'.user = nm.user
        BY <1>t, <4>1 DEF NameType
      <4>3. Len(nm'.labels) = k + 1 /\ nm'.labels[k + 1] = l /\ \A i \in 1 .. k : nm'.labels[i] = nm.labels[i]
        BY <1>t, <3>1, <4>2, AppendProperties
      <4>4. \A i \in 1 .. k + 1 : nm'.labels[i] = L[i]
        <5>1. \A i \in 1 .. k : nm.labels[i] = L[i]
          BY <1>4 DEF LabelsRead
        <5>2. \A i \in 1 .. k + 1 : i = k + 1 \/ i \in 1 .. k
          BY <1>t
        <5> QED  BY <4>3, <5>1, <5>2 DEF l
      <4>5. LabelsRead'
        <5>1. k + 1 \in Nat /\ k + 1 <= Len(L)
          BY <1>t, <1>l, <2>3
        <5> HIDE DEF k, L
        <5> QED  BY <1>0, <4>2, <4>3, <4>4, <5>1 DEF LabelsRead, L
      <4> QED  BY <1>4, <4>1, <4>2, <4>5 DEF EchoInv
    <3> QED  BY <2>1, <2>2, <3>2, <3>3 DEF FollowPointer, GoodPointer, NameEnds, GoodEnd
  <2>4. CASE k = Len(L)
    <3>1. Octet = 0
      <4>1. nm.curr = 2 + Len(all)
        BY <1>4, <2>4 DEF LabelsRead
      <4> QED  BY <1>o, <4>1 DEF Octet
    <3>2. NameEnds \/ NameFails
      BY <2>1, <3>1 DEF FollowPointer, GoodPointer, ReadLabel, GoodLabel
    <3>3. CASE NameEnds
      <4>1. nm.labels = L
        <5>1. \A i \in 1 .. k : nm.labels[i] = L[i]
          BY <1>4 DEF LabelsRead
        <5> QED  BY <1>t, <1>l, <2>4, <5>1, SeqEqual DEF LabelLists
      <4>2. nm'.labels = nm.labels /\ nm'.user = nm.user /\ pc' = "named" /\ UNCHANGED msg
        BY <1>t, <3>3 DEF NameEnds, Goto, NameType
      <4> QED  BY <1>0, <1>4, <4>1, <4>2 DEF EchoInv
    <3> QED  BY <2>2, <3>2, <3>3
  <2> QED
    <3>1. k <= Len(L)
      BY <1>4 DEF LabelsRead
    <3>2. k < Len(L) \/ k = Len(L)
      BY <1>t, <1>l, <3>1
    <3> QED  BY <2>3, <2>4, <3>2
<1>5. CASE pc = "named" /\ nm.user = "question" /\ msg.questions = <<>> /\ nm.labels = FirstLabels
  <2>1. EndQuestion
    BY <1>5, WhichStep DEF StartRecord, EndRDataName
  <2>2. CASE pc' = "error"
    BY <2>2 DEF EchoInv
  <2>3. CASE msg' = [msg EXCEPT !.questions = Append(@, [name |-> Join(nm.labels), type |-> At(nm.next)])]
    <3> DEFINE q == [name |-> Join(nm.labels), type |-> At(nm.next)]
    <3>1. msg'.questions = Append(<<>>, q) /\ q.name = Join(L)
      BY <1>t, <1>5, <2>3 DEF Message
    <3> HIDE DEF q
    <3>2. Append(<<>>, q) = <<q>>
      OBVIOUS
    <3>3. msg'.questions # <<>> /\ msg'.questions[1].name = Join(L)
      BY <3>1, <3>2
    <3>4. FirstIsRead'
      BY <1>0, <3>3 DEF FirstIsRead
    <3> QED  BY <3>4 DEF EchoInv
  <2> QED  BY <2>1, <2>2, <2>3 DEF EndQuestion, Goto
<1>6. CASE pc = "badname" /\ nm.user = "question"
  <2>1. BadName
    BY <1>6, WhichStep
  <2> QED  BY <1>6, <2>1 DEF BadName, Goto, EchoInv
<1>7. CASE FirstIsRead
  <2>1. \/ msg'.questions = msg.questions
        \/ \E q \in Question : msg'.questions = Append(msg.questions, q)
    BY QuestionsGrow
  <2>2. FirstIsRead'
    BY <1>7, <2>1, FirstStays
  <2> QED  BY <2>2 DEF EchoInv
<1> QED  BY <1>1, <1>2, <1>3, <1>4, <1>5, <1>6, <1>7 DEF EchoInv

-------------------------------------------------------------------------------

TripInv ==
    /\ IInv /\ ReadInv
    /\ WriteInv /\ OpenInv
    /\ trip = "again" =>
          /\ epc = "encoded" /\ packet = w.buf
          /\ sent.questions # <<>> => EchoInv

(* A packet that has not been decoded satisfies the invariant of the trip. *)
LEMMA TripStarts == TripInit => TripInv
<1> SUFFICES ASSUME TripInit  PROVE TripInv
  OBVIOUS
<1>e. <<>> \in Seq(Nat) /\ <<>> \in Seq(Item) /\ <<>> \in Seq(Question) /\ <<>> \in Seq(Record)
  BY EmptySeq
<1>1. WriteInv /\ OpenInv
  <2>1. NewWriter \in Writer
    BY <1>e DEF NewWriter, Writer, Text, Cell
  <2>2. NoMessage \in Message
    BY <1>e DEF NoMessage, Message, Question, Record
  <2>3. NothingToDo \in [questions : Seq(Question), records : Seq(Record), items : Seq(Item)]
    BY <1>e DEF NothingToDo
  <2> QED  BY <2>1, <2>2, <2>3 DEF TripInit, EncoderInit, WriteInv, OpenInv, NoMessage
<1>2. CASE Init /\ trip = "arrives"
  BY <1>1, <1>2, InitEstablishes, ReadStarts DEF TripInv
<1>3. CASE /\ trip = "composed" /\ msg \in Messages
           /\ pc = "done" /\ packet = <<>> /\ off = 0 /\ left = [questions |-> 0, records |-> 0]
           /\ nm = NoName /\ rr = NoRecord
  <2>1. Guarded(<<>>)
    BY EmptySeq DEF Guarded
  <2>2. Size \in Nat
    BY <1>3, <1>e, CellType
  <2>3. nm \in NameType
    BY <1>3, EmptySeq DEF NoName, NameType
  <2>4. IInv
    BY <1>3, <1>e, <2>1, <2>2, <2>3 DEF IInv, RecordOK, NoRecord, InName
  <2>5. ReadInv
    BY <1>3, <1>e, MessagesAssumption DEF ReadInv, NoRecord, Text, Cell
  <2> QED  BY <1>1, <1>3, <2>4, <2>5 DEF TripInv
<1> QED  BY <1>2, <1>3 DEF TripInit

(* Every step of the trip keeps it: decoding, taking the message,          *)
(* encoding, and decoding what was encoded.                                *)
LEMMA TripStep == TripInv /\ [TripNext]_allVars => TripInv'
<1> SUFFICES ASSUME TripInv, [TripNext]_allVars  PROVE TripInv'
  OBVIOUS
<1>k. ASSUME UNCHANGED encoderVars  PROVE WriteInv' /\ OpenInv'
  <2>1. UNCHANGED <<epc, sent, todo, lenPos, w>>
    BY <1>k DEF encoderVars
  <2>2. WriteInv'
    BY <2>1 DEF TripInv, WriteInv
  <2>3. Opening' = Opening /\ Opened' = Opened /\ NothingWritten' = NothingWritten
    BY <2>1 DEF Opening, Opened, FirstLabels, Writable, TextLength, NothingWritten
  <2> QED  BY <2>1, <2>2, <2>3 DEF TripInv, OpenInv
<1>v. ASSUME UNCHANGED vars  PROVE IInv' /\ ReadInv'
  BY <1>v, Inductive, ReadKeepsTypes DEF TripInv
<1>1. CASE DecodeStep
  <2>1. Next /\ UNCHANGED <<encoderVars, trip>> /\ UNCHANGED <<epc, sent, w>>
    BY <1>1 DEF DecodeStep, encoderVars
  <2>2. IInv' /\ ReadInv'
    BY <2>1, Inductive, ReadKeepsTypes DEF TripInv
  <2>3. UNCHANGED packet
    BY <2>1 DEF Next, DecodeHeader, NextQuestion, NextRecord, Finish, decodeName, FollowPointer, ReadLabel,
          NameEnds, NameFails, BadName, EndQuestion, StartRecord, parseRData, CheckLength, ReadNumbers, ReadName,
          EndRDataName, ReadCounted, ReadString, EndStrings, ReadRest, EndFields, EndRecord
  <2>4. ASSUME trip' = "again", sent'.questions # <<>>  PROVE EchoInv'
    <3>1. trip = "again" /\ sent.questions # <<>> /\ epc = "encoded" /\ packet = w.buf /\ EchoInv
      BY <2>1, <2>4 DEF TripInv
    <3>2. Opened /\ sent \in Message
      BY <3>1 DEF TripInv, OpenInv, WriteInv
    <3>3. Arrived
      BY <3>1, <3>2 DEF Arrived, Opened
    <3> QED  BY <2>1, <3>1, <3>3, EchoStep DEF TripInv
  <2> QED  BY <1>k, <2>1, <2>2, <2>3, <2>4 DEF TripInv
<1>2. CASE SendOn
  <2>1. /\ trip' = "encode" /\ UNCHANGED vars /\ epc' = "question" /\ sent' = msg /\ UNCHANGED lenPos
        /\ todo' = [NothingToDo EXCEPT !.questions = msg.questions, !.records = msg.records]
        /\ w' = Put(NewWriter, NormalizeCounts(msg))
    BY <1>2 DEF SendOn, StartEncode
  <2>2. msg \in Message /\ msg.questions \in Seq(Question) /\ msg.records \in Seq(Record)
    BY DEF TripInv, ReadInv, Message, Question, Record
  <2>3. todo' \in [questions : Seq(Question), records : Seq(Record), items : Seq(Item)] /\ todo'.questions = sent'.questions
    BY <2>1, <2>2, EmptySeq DEF NothingToDo
  <2>4. NormalizeCounts(msg) \in Seq(Nat)
    <3>1. Len(msg.questions) \in Nat /\ Len(msg.records) \in Nat
      BY <2>2, LenProperties
    <3> QED  BY <3>1 DEF NormalizeCounts
  <2>5. w' \in Writer /\ w'.buf = NormalizeCounts(sent)' /\ w'.compression = {}
    <3>1. NewWriter \in Writer /\ NewWriter.buf = <<>> /\ NewWriter.compression = {}
      BY EmptySeq DEF NewWriter, Writer, Text, Cell
    <3>2. w' \in Writer /\ w'.buf = <<>> \o NormalizeCounts(msg) /\ w'.compression = {}
      BY <2>1, <2>4, <3>1, PutIs
    <3>3. <<>> \o NormalizeCounts(msg) = NormalizeCounts(msg)
      BY <2>4, ConcatEmptySeq
    <3>4. NormalizeCounts(sent)' = NormalizeCounts(msg)
      BY <2>1 DEF NormalizeCounts
    <3> QED  BY <3>2, <3>3, <3>4
  <2>6. WriteInv'
    BY <2>1, <2>2, <2>3, <2>5 DEF TripInv, WriteInv
  <2>7. NothingWritten'
    BY <2>3, <2>5 DEF NothingWritten
  <2> QED  BY <1>v, <2>1, <2>6, <2>7 DEF TripInv, OpenInv
<1>3. CASE EncodeStep
  <2>1. EncoderNext /\ UNCHANGED vars /\ UNCHANGED trip
    BY <1>3 DEF EncodeStep
  <2>2. WriteInv' /\ OpenInv'
    BY <2>1, EncoderKeeps DEF TripInv
  <2>3. epc # "encoded"
    BY <2>1 DEF EncoderNext, EncodeQuestion, EndQuestions, EncodeResourceRecord, EncodeRData, SetLength, EndEncode
  <2> QED  BY <1>v, <2>1, <2>2, <2>3 DEF TripInv
<1>4. CASE Receive
  <2>1. /\ epc = "encoded" /\ trip' = "again" /\ packet' = w.buf /\ UNCHANGED encoderVars /\ UNCHANGED <<epc, w>>
        /\ pc' = "start" /\ off' = 0 /\ left' = [questions |-> 0, records |-> 0]
        /\ nm' = NoName /\ rr' = NoRecord /\ msg' = NothingRead
    BY <1>4 DEF Receive, encoderVars
  <2>2. <<>> \in Seq(Nat) /\ <<>> \in Seq(Item) /\ <<>> \in Seq(Question) /\ <<>> \in Seq(Record)
    BY EmptySeq
  <2>3. packet' \in Seq(Nat)
    BY <2>1 DEF TripInv, WriteInv, Writer, Text, Cell
  <2>4. nm' \in NameType
    BY <2>1, EmptySeq DEF NoName, NameType
  <2>5. RecordOK'
    <3>1. Guarded(<<>>)
      BY EmptySeq DEF Guarded
    <3>2. Size' \in Nat
      BY <2>3, LenProperties DEF Size
    <3> QED  BY <2>1, <3>1, <3>2 DEF RecordOK, NoRecord
  <2>6. IInv'
    BY <2>1, <2>3, <2>4, <2>5 DEF IInv, InName
  <2>7. ReadInv'
    BY <2>1, <2>2 DEF ReadInv, NoRecord, NothingRead, Message, Text, Cell, Question, Record
  <2>8. EchoInv'
    BY <2>1 DEF EchoInv, NothingRead
  <2> QED  BY <1>k, <2>1, <2>6, <2>7, <2>8 DEF TripInv
<1>5. CASE UNCHANGED allVars
  <2>1. UNCHANGED vars /\ UNCHANGED encoderVars /\ UNCHANGED trip
    BY <1>5 DEF allVars
  <2>2. UNCHANGED <<epc, w, sent, packet, pc, off, left, nm, msg>>
    BY <2>1 DEF vars, encoderVars
  <2>3. EchoInv' = EchoInv
    BY <2>2 DEF EchoInv, LabelsRead, FirstIsRead, FirstLabels
  <2> QED  BY <1>k, <1>v, <2>1, <2>2, <2>3 DEF TripInv
<1> QED  BY <1>1, <1>2, <1>3, <1>4, <1>5 DEF TripNext

(* The first question of a message arrives as it is in the message, for    *)
(* any message whose first name has no blanks at its ends, any limits and  *)
(* whatever names beyond ASCII are in lower case.                          *)
THEOREM TheQuestionIsEchoed == TripSpec => []QuestionIsEchoed
<1>1. TripInv => QuestionIsEchoed
  <2> SUFFICES ASSUME TripInv, trip = "again", pc = "done", sent.questions # <<>>, ~BlankEnds(sent.questions[1].name)
               PROVE  msg.questions[1].name = Qualified(sent.questions[1].name)
    BY DEF QuestionIsEchoed
  <2>1. msg.questions[1].name = Join(SplitQName(sent.questions[1].name))
    BY DEF TripInv, EchoInv, FirstIsRead, FirstLabels
  <2>2. sent.questions[1].name \in Seq(Nat)
    <3>1. sent.questions \in Seq(Question)
      BY DEF TripInv, WriteInv, Message, Question
    <3>2. Len(sent.questions) \in Nat /\ Len(sent.questions) # 0
      BY <3>1, LenProperties, EmptySeq
    <3>3. sent.questions[1] \in Question
      BY <3>1, <3>2, ElementOfSeq
    <3> QED  BY <3>3 DEF Question, Text, Cell
  <2> QED  BY <2>1, <2>2, NameIsKept
<1> QED  BY <1>1, TripStarts, TripStep, PTL DEF TripSpec

-------------------------------------------------------------------------------

(* The labels of a list from the i-th on.                                  *)
From(L, i) == SubSeq(L, i, Len(L))

(* The labels from the i-th on: how many, which, and what is left without  *)
(* the first.                                                              *)
LEMMA FromIs ==
    ASSUME NEW L \in LabelLists, NEW i \in Nat, 1 <= i, i <= Len(L) + 1
    PROVE  /\ From(L, i) \in LabelLists /\ Len(From(L, i)) = (Len(L) - i) + 1
           /\ \A j \in 1 .. (Len(L) - i) + 1 : From(L, i)[j] = L[(i + j) - 1]
           /\ i <= Len(L) => From(L, i) # <<>> /\ From(L, i)[1] = L[i] /\ Tail(From(L, i)) = From(L, i + 1)
<1>0. L \in Seq(Seq(Nat)) /\ Len(L) \in Nat /\ \A j \in 1 .. Len(L) : L[j] \in Seq(Nat)
  BY LabelListTypes DEF LabelLists
<1>1. /\ From(L, i) \in Seq(Seq(Nat)) /\ Len(From(L, i)) = (Len(L) - i) + 1
      /\ \A j \in 1 .. (Len(L) - i) + 1 : From(L, i)[j] = L[(i + j) - 1]
  <2> DEFINE n == Len(L)
             s == SubSeq(L, i, n)
  <2>1. \A j \in i .. n : L[j] \in Seq(Nat)
    BY <1>0
  <2>2. /\ s \in Seq(Seq(Nat)) /\ Len(s) = (IF i <= n THEN n - i + 1 ELSE 0)
        /\ \A j \in 1 .. n - i + 1 : s[j] = L[i + j - 1]
    <3>1. n \in Int /\ i \in Int
      BY <1>0
    <3> HIDE DEF n
    <3> QED  BY <2>1, <3>1, SubSeqProperties
  <2> HIDE DEF s
  <2>3. Len(s) = (n - i) + 1
    BY <1>0, <2>2
  <2> QED  BY <2>2, <2>3 DEF From, s
<1>2. ASSUME i <= Len(L)
      PROVE  From(L, i) # <<>> /\ From(L, i)[1] = L[i] /\ Tail(From(L, i)) = From(L, i + 1)
  <2>1. i \in 1 .. Len(L) /\ Len(L) \in i .. Len(L)
    BY <1>0, <1>2
  <2>2. Tail(From(L, i)) = From(L, i + 1)
    BY <1>0, <2>1, HeadTailOfSubSeq DEF From
  <2>3. (i + 1) - 1 = i /\ 1 \in 1 .. (Len(L) - i) + 1 /\ (Len(L) - i) + 1 # 0
    BY <1>0, <1>2
  <2>4. From(L, i)[1] = L[i]
    BY <1>1, <2>3
  <2>5. From(L, i) # <<>>
    BY <1>1, <2>3, EmptySeq
  <2> QED  BY <2>2, <2>4, <2>5
<1> QED  BY <1>0, <1>1, <1>2 DEF LabelLists

(* From the first label on there is the whole list, after the last there   *)
(* is nothing.                                                             *)
LEMMA FromEnds ==
    ASSUME NEW L \in LabelLists
    PROVE  From(L, 1) = L /\ From(L, Len(L) + 1) = <<>>
<1>0. L \in Seq(Seq(Nat)) /\ Len(L) \in Nat
  BY LabelListTypes DEF LabelLists
<1>1. From(L, Len(L) + 1) = <<>>
  <2>1. Len(From(L, Len(L) + 1)) = 0 /\ From(L, Len(L) + 1) \in LabelLists
    BY <1>0, FromIs
  <2> QED  BY <2>1, LabelListTypes
<1>2. From(L, 1) = L
  <2>1. /\ From(L, 1) \in LabelLists /\ Len(From(L, 1)) = (Len(L) - 1) + 1
        /\ \A j \in 1 .. (Len(L) - 1) + 1 : From(L, 1)[j] = L[(1 + j) - 1]
    <3>1. 1 \in Nat /\ 1 <= 1 /\ 1 <= Len(L) + 1
      BY <1>0
    <3> QED  BY <3>1, FromIs, Zenon
  <2>2. (Len(L) - 1) + 1 = Len(L) /\ \A j \in 1 .. Len(L) : (1 + j) - 1 = j
    BY <1>0
  <2>3. Len(From(L, 1)) = Len(L) /\ \A j \in 1 .. Len(L) : From(L, 1)[j] = L[j]
    BY <2>1, <2>2
  <2> QED  BY <1>0, <2>1, <2>3, SeqEqual DEF LabelLists
<1> QED  BY <1>1, <1>2

(* Suffixes of lists that are the same but for case are so too.            *)
LEMMA FromSame ==
    ASSUME NEW L \in LabelLists, NEW G \in LabelLists, SameLabels(L, G), NEW i \in Nat, 1 <= i, i <= Len(L) + 1
    PROVE  SameLabels(From(L, i), From(G, i))
<1>0. Len(L) \in Nat /\ Len(G) = Len(L)
  BY LabelListTypes DEF SameLabels
<1> DEFINE m == (Len(L) - i) + 1
<1>1. m \in Nat /\ \A j \in 1 .. m : (i + j) - 1 \in 1 .. Len(L)
  BY <1>0
<1>2. Len(From(L, i)) = m /\ \A j \in 1 .. m : From(L, i)[j] = L[(i + j) - 1]
  BY FromIs
<1>3. Len(From(G, i)) = m /\ \A j \in 1 .. m : From(G, i)[j] = G[(i + j) - 1]
  BY <1>0, FromIs
<1> HIDE DEF m
<1>4. \A j \in 1 .. Len(L) : Alike(L[j], G[j])
  BY DEF SameLabels
<1>5. \A j \in 1 .. m : Alike(From(L, i)[j], From(G, i)[j])
  BY <1>1, <1>2, <1>3, <1>4
<1> QED  BY <1>2, <1>3, <1>5 DEF SameLabels

(* Where labels of names were written: at an offset, those from there on   *)
(* as they will be read, the start of the name and its end in the packet.  *)
Entry == [at : Nat, labels : LabelLists, base : Nat, end : Nat]

(* The labels T of a name that begins at base are to be read at p: the     *)
(* root, a label, or a pointer back behind the name; what follows is at e. *)
Reads(buf, N, p, T, base, e) ==
    /\ e <= Len(buf)
    /\ \/ T = <<>> /\ buf[p + 1] = 0 /\ e = p + 1
       \/ [at |-> p, labels |-> T, base |-> base, end |-> e] \in N
       \/ /\ T # <<>> /\ e = p + 2
          /\ \E t \in N : /\ t.labels = T /\ t.at < base /\ t.at <= MaxPointer
                          /\ buf[p + 1] = 192 + t.at \div 256 /\ buf[p + 2] = t.at % 256

(* The first label of an entry lies at its offset, and the others are to   *)
(* be read after it.                                                       *)
EntryOK(buf, N, n) ==
    LET l == n.labels[1] IN
    /\ n.labels # <<>> /\ Dotless(n.labels)
    /\ Len(l) \in 1 .. MaxLabelLength
    /\ n.base <= n.at /\ (n.at + 1) + Len(l) < n.end /\ n.end <= Len(buf)
    /\ buf[n.at + 1] = Len(l)
    /\ \A i \in 1 .. Len(l) : buf[(n.at + 1) + i] = l[i]
    /\ Reads(buf, N, (n.at + 1) + Len(l), Tail(n.labels), n.base, n.end)

(* Every entry is as it says.                                              *)
NamesOK(buf, N) == N \subseteq Entry /\ \A n \in N : EntryOK(buf, N, n)

(* The name text was written at p and ends before e.                       *)
NamedAt(buf, N, p, text, e) ==
    /\ p < e /\ Writable(SplitQName(text))
    /\ \E G \in LabelLists : SameLabels(SplitQName(text), G) /\ Reads(buf, N, p, G, p, e)

(* Two packets have the same cells from one position to another.           *)
SameCells(buf, more, from, to) == \A i \in from + 1 .. to : more[i] = buf[i]

(* What is to be read at p is to be read in a longer packet with the same  *)
(* cells.                                                                  *)
LEMMA ReadsKept ==
    ASSUME NEW buf \in Seq(Nat), NEW more \in Seq(Nat), Len(buf) <= Len(more),
           NEW N, NEW M, N \subseteq M, NEW p \in Nat, NEW T, NEW base, NEW e \in Nat,
           Reads(buf, N, p, T, base, e), SameCells(buf, more, p, e)
    PROVE  Reads(more, M, p, T, base, e)
<1>0. e <= Len(more)
  BY LenProperties DEF Reads
<1>1. CASE T = <<>> /\ buf[p + 1] = 0 /\ e = p + 1
  <2>1. more[p + 1] = 0
    BY <1>1 DEF SameCells
  <2> QED  BY <1>0, <1>1, <2>1 DEF Reads
<1>2. CASE [at |-> p, labels |-> T, base |-> base, end |-> e] \in N
  BY <1>0, <1>2 DEF Reads
<1>3. ASSUME T # <<>>, e = p + 2,
             NEW t \in N, t.labels = T, t.at < base, t.at <= MaxPointer,
             buf[p + 1] = 192 + t.at \div 256, buf[p + 2] = t.at % 256
      PROVE  Reads(more, M, p, T, base, e)
  <2>0. \A a \in Nat : a + 1 \in a + 1 .. a + 2 /\ a + 2 \in a + 1 .. a + 2
    OBVIOUS
  <2>1. p + 1 \in p + 1 .. e /\ p + 2 \in p + 1 .. e
    BY <1>3, <2>0
  <2>2. more[p + 1] = buf[p + 1] /\ more[p + 2] = buf[p + 2]
    BY <2>1 DEF SameCells
  <2>3. t \in M
    OBVIOUS
  <2> QED  BY <1>0, <1>3, <2>2, <2>3 DEF Reads
<1> QED  BY <1>1, <1>2, <1>3 DEF Reads

(* An entry stays right in a longer packet with the same cells.            *)
LEMMA EntryKept ==
    ASSUME NEW buf \in Seq(Nat), NEW more \in Seq(Nat), Len(buf) <= Len(more),
           NEW N, NEW M, N \subseteq M, N \subseteq Entry, NEW n \in N, EntryOK(buf, N, n), SameCells(buf, more, n.at, n.end)
    PROVE  EntryOK(more, M, n)
<1> DEFINE l == n.labels[1]
           p == (n.at + 1) + Len(l)
<1>0. n.at \in Nat /\ n.end \in Nat /\ Len(buf) \in Nat /\ Len(more) \in Nat /\ n.base \in Nat
  BY LenProperties DEF Entry
<1>1. /\ n.labels # <<>> /\ Dotless(n.labels) /\ Len(l) \in 1 .. MaxLabelLength
      /\ n.base <= n.at /\ p < n.end /\ n.end <= Len(buf)
      /\ buf[n.at + 1] = Len(l) /\ \A i \in 1 .. Len(l) : buf[(n.at + 1) + i] = l[i]
      /\ Reads(buf, N, p, Tail(n.labels), n.base, n.end)
  BY DEF EntryOK
<1> HIDE DEF l
<1>2. Len(l) \in Nat /\ p \in Nat
  <2>1. \A a, b \in Nat : (a + 1) + b \in Nat
    OBVIOUS
  <2>2. Len(l) \in Nat
    BY <1>1 DEF MaxLabelLength
  <2> QED  BY <1>0, <2>1, <2>2
<1>3. n.end <= Len(more)
  BY <1>0, <1>1, SMTT(30)
<1>4. n.at + 1 \in n.at + 1 .. n.end /\ \A i \in 1 .. Len(l) : (n.at + 1) + i \in n.at + 1 .. n.end
  <2>1. \A a, b, c \in Nat : (a + 1) + b < c =>
            a + 1 \in a + 1 .. c /\ \A i \in 1 .. b : (a + 1) + i \in a + 1 .. c
    OBVIOUS
  <2>2. (n.at + 1) + Len(l) < n.end /\ n.at \in Nat /\ Len(l) \in Nat /\ n.end \in Nat
    BY <1>0, <1>1, <1>2
  <2> QED  BY <2>1, <2>2
<1>5. more[n.at + 1] = Len(l) /\ \A i \in 1 .. Len(l) : more[(n.at + 1) + i] = l[i]
  BY <1>1, <1>4 DEF SameCells
<1>6. SameCells(buf, more, p, n.end)
  <2>1. \A i \in p + 1 .. n.end : i \in n.at + 1 .. n.end
    BY <1>0, <1>2
  <2> QED  BY <2>1 DEF SameCells
<1> HIDE DEF p
<1>7. Reads(more, M, p, Tail(n.labels), n.base, n.end)
  BY <1>0, <1>1, <1>2, <1>6, ReadsKept
<1> QED  BY <1>1, <1>3, <1>5, <1>7 DEF EntryOK, l, p

(* A name stays where it was written in a longer packet with the same      *)
(* cells.                                                                  *)
LEMMA NamedKept ==
    ASSUME NEW buf \in Seq(Nat), NEW more \in Seq(Nat), Len(buf) <= Len(more),
           NEW N, NEW M, N \subseteq M, NEW p \in Nat, NEW text, NEW e \in Nat,
           NamedAt(buf, N, p, text, e), SameCells(buf, more, p, e)
    PROVE  NamedAt(more, M, p, text, e)
<1>1. PICK G \in LabelLists : SameLabels(SplitQName(text), G) /\ Reads(buf, N, p, G, p, e)
  BY DEF NamedAt
<1>2. Reads(more, M, p, G, p, e)
  BY <1>1, ReadsKept
<1> QED  BY <1>1, <1>2 DEF NamedAt

-------------------------------------------------------------------------------

(* The table of suffixes leads to entries with their labels, in some case. *)
TableOK(table, N) == \A s \in table : \E n \in N : n.at = s.offset /\ s.key = FoldCase(Dotted(n.labels))

(* The types of an entry.                                                  *)
LEMMA EntryTypes ==
    ASSUME NEW N, N \subseteq Entry, NEW n \in N
    PROVE  n.at \in Nat /\ n.labels \in LabelLists /\ n.base \in Nat /\ n.end \in Nat
BY DEF Entry

(* Names stay where they are when a packet grows.                          *)
LEMMA NamesGrow ==
    ASSUME NEW buf \in Seq(Nat), NEW more \in Seq(Nat), Begins(buf, more), NEW N, NEW M, N \subseteq M, NamesOK(buf, N)
    PROVE  \A n \in N : EntryOK(more, M, n)
<1>0. Len(buf) \in Nat /\ Len(more) \in Nat /\ Len(buf) <= Len(more)
  BY LenProperties DEF Begins
<1> SUFFICES ASSUME NEW n \in N  PROVE EntryOK(more, M, n)
  OBVIOUS
<1>1. EntryOK(buf, N, n) /\ N \subseteq Entry
  BY DEF NamesOK
<1>2. n.at \in Nat /\ n.end \in Nat /\ n.end <= Len(buf)
  BY <1>1, EntryTypes DEF EntryOK
<1>3. \A i \in n.at + 1 .. n.end : i \in 1 .. Len(buf)
  BY <1>0, <1>2
<1>4. SameCells(buf, more, n.at, n.end)
  BY <1>3 DEF SameCells, Begins
<1> QED  BY <1>0, <1>1, <1>4, EntryKept

(* A suffix of a list without dots has none.                               *)
LEMMA FromDotless ==
    ASSUME NEW L \in LabelLists, Dotless(L), NEW i \in Nat, 1 <= i, i <= Len(L) + 1
    PROVE  Dotless(From(L, i))
<1>0. Len(L) \in Nat
  BY LabelListTypes
<1> DEFINE m == (Len(L) - i) + 1
<1>1. \A j \in 1 .. m : (i + j) - 1 \in 1 .. Len(L)
  BY <1>0
<1>2. Len(From(L, i)) = m /\ \A j \in 1 .. m : From(L, i)[j] = L[(i + j) - 1]
  BY FromIs
<1> HIDE DEF m
<1> QED  BY <1>1, <1>2 DEF Dotless

(* Labels of H that are written out, and what comes after them, can be     *)
(* read again.                                                             *)
Writes(v, N, L, H, n, ending, buf) ==
    /\ v \in Writer /\ NamesOK(v.buf, N)
    /\ L \in LabelLists /\ H \in LabelLists /\ Dotless(H) /\ n \in 0 .. Len(L) /\ n <= Len(H)
    /\ \A i \in 1 .. n : H[i] = L[i] /\ Len(L[i]) \in 1 .. MaxLabelLength
    /\ ending \in Seq(Nat) /\ Len(ending) > 0 /\ buf = (v.buf \o LabelCells(L, n)) \o ending
    /\ Reads(buf, N, Len(v.buf) + Len(LabelCells(L, n)), From(H, n + 1), Len(v.buf), Len(buf))

(* The entries for the labels of one name.                                 *)
NewEntries(v, L, H, n, buf) ==
    {[at |-> SuffixOffset(v, L, i), labels |-> From(H, i), base |-> Len(v.buf), end |-> Len(buf)] : i \in 1 .. n}

(* The first n labels of L and an ending that reads as the rest of H:      *)
(* every label written is an entry, and H is to be read where the name     *)
(* begins.                                                                 *)
LEMMA LabelsWritten ==
    ASSUME NEW v, NEW N, NEW L, NEW H, NEW n, NEW ending, NEW buf, Writes(v, N, L, H, n, ending, buf),
           NEW M, M = N \cup NewEntries(v, L, H, n, buf)
    PROVE  NamesOK(buf, M) /\ Reads(buf, M, Len(v.buf), H, Len(v.buf), Len(buf))
<1> DEFINE B == Len(v.buf)
           cells == LabelCells(L, n)
           place(i) == B + Len(LabelCells(L, i - 1))
           new(i) == [at |-> place(i), labels |-> From(H, i), base |-> B, end |-> Len(buf)]
           last == B + Len(cells)
<1>h. /\ v \in Writer /\ NamesOK(v.buf, N) /\ L \in LabelLists /\ H \in LabelLists /\ Dotless(H)
      /\ ending \in Seq(Nat) /\ Len(ending) > 0
  BY DEF Writes
<1>0. Len(L) \in Nat /\ Len(H) \in Nat /\ n \in Nat /\ n <= Len(L) /\ n <= Len(H)
  BY LabelListTypes DEF Writes
<1>1. v.buf \in Seq(Nat) /\ cells \in Seq(Nat)
  <2>1. n \in 0 .. Len(L)
    BY DEF Writes
  <2> QED  BY <1>h, <2>1, LabelCellsNext DEF Writer, Text, Cell
<1>2. B \in Nat /\ Len(cells) \in Nat /\ Len(ending) \in Nat /\ Len(ending) > 0 /\ last \in Nat
  BY <1>h, <1>1, LenProperties
<1>3. M = N \cup {new(i) : i \in 1 .. n}
  BY DEF SuffixOffset, NewEntries
<1>4. /\ buf \in Seq(Nat) /\ Len(buf) = last + Len(ending)
      /\ \A j \in 1 .. Len(cells) : buf[B + j] = cells[j]
      /\ Begins(v.buf, buf)
  <2> DEFINE u == v.buf \o cells
  <2>1. u \in Seq(Nat) /\ Len(u) = last /\ Begins(v.buf, u)
    BY <1>1, TextTypes, BeginsIs
  <2>2. \A j \in 1 .. B + Len(cells) : u[j] = IF j <= B THEN v.buf[j] ELSE cells[j - B]
    <3> HIDE DEF cells
    <3> QED  BY <1>1, TextConcat
  <2> HIDE DEF u, cells
  <2>3. buf = u \o ending
    BY DEF u, cells, Writes
  <2>4. buf \in Seq(Nat) /\ Len(buf) = last + Len(ending) /\ Begins(u, buf)
    BY <1>h, <2>1, <2>3, TextTypes, BeginsIs
  <2>5. Begins(v.buf, buf)
    BY <1>1, <2>1, <2>4, BeginsIs
  <2>6. ASSUME NEW j \in 1 .. Len(cells)  PROVE buf[B + j] = cells[j]
    <3>1. B + j \in 1 .. last /\ ~(B + j <= B) /\ (B + j) - B = j
      BY <1>2
    <3>2. u[B + j] = cells[j]
      BY <2>2, <3>1
    <3>3. buf[B + j] = u[B + j]
      BY <2>1, <2>4, <3>1 DEF Begins
    <3> QED  BY <3>2, <3>3
  <2> QED  BY <2>4, <2>5, <2>6
<1>5. ASSUME NEW i \in 1 .. n
      PROVE  /\ i \in Nat /\ 1 <= i /\ i <= Len(H) /\ i + 1 <= Len(H) + 1 /\ H[i] = L[i] /\ i \in 1 .. Len(L)
             /\ place(i) \in Nat /\ L[i] \in Seq(Nat) /\ Len(L[i]) \in 1 .. MaxLabelLength
             /\ place(i + 1) = (place(i) + 1) + Len(L[i]) /\ place(i + 1) <= last
             /\ buf[place(i) + 1] = Len(L[i])
             /\ \A j \in 1 .. Len(L[i]) : buf[(place(i) + 1) + j] = L[i][j]
  <2> DEFINE k == i - 1
             at == Len(LabelCells(L, k))
             size == Len(L[k + 1])
  <2>1. k \in Nat /\ k < n /\ k + 1 = i /\ (i + 1) - 1 = i
    BY <1>0
  <2>2. /\ at \in Nat /\ size \in Nat
        /\ Len(LabelCells(L, k + 1)) = (at + 1) + size
        /\ (at + 1) + size <= Len(cells)
        /\ cells[at + 1] = size
        /\ \A j \in 1 .. size : cells[(at + 1) + j] = L[k + 1][j]
    <3>1. L \in LabelLists /\ k \in Nat /\ n \in Nat /\ k < n /\ n <= Len(L)
      BY <1>h, <1>0, <2>1
    <3> HIDE DEF k
    <3> QED  BY <3>1, LabelAt
  <2>3. i \in Nat /\ 1 <= i /\ i <= Len(H) /\ i + 1 <= Len(H) + 1 /\ H[i] = L[i] /\ i \in 1 .. Len(L)
    <3>1. H[i] = L[i]
      BY DEF Writes
    <3> QED  BY <1>0, <3>1
  <2>4. L[i] \in Seq(Nat) /\ Len(L[i]) \in 1 .. MaxLabelLength
    <3>1. Len(L[i]) \in 1 .. MaxLabelLength
      BY DEF Writes
    <3> QED  BY <1>h, <2>3, <3>1, LabelListTypes
  <2>5. place(i) = B + at /\ place(i + 1) = B + Len(LabelCells(L, k + 1))
    BY <2>1
  <2>6. size = Len(L[i]) /\ \A j \in 1 .. size : cells[(at + 1) + j] = L[i][j]
    BY <2>1, <2>2
  <2>a. /\ at \in Nat /\ size \in Nat /\ cells[at + 1] = size
        /\ Len(LabelCells(L, k + 1)) = (at + 1) + size /\ (at + 1) + size <= Len(cells)
    BY <2>2
  <2> HIDE DEF k, at, size, cells, place, B, last
  <2>b. /\ place(i) \in Nat /\ place(i + 1) = (place(i) + 1) + size /\ place(i + 1) <= B + Len(cells)
        /\ at + 1 \in 1 .. Len(cells) /\ place(i) + 1 = B + (at + 1)
        /\ \A j \in 1 .. size : (at + 1) + j \in 1 .. Len(cells) /\ (place(i) + 1) + j = B + ((at + 1) + j)
    <3>1. \A p, q, r, t \in Nat : (q + 1) + r <= t =>
              /\ p + q \in Nat /\ p + ((q + 1) + r) = ((p + q) + 1) + r /\ p + ((q + 1) + r) <= p + t
              /\ q + 1 \in 1 .. t /\ (p + q) + 1 = p + (q + 1)
              /\ \A j \in 1 .. r : (q + 1) + j \in 1 .. t /\ ((p + q) + 1) + j = p + ((q + 1) + j)
      OBVIOUS
    <3>2. B \in Nat /\ at \in Nat /\ size \in Nat /\ Len(cells) \in Nat /\ (at + 1) + size <= Len(cells)
      BY <1>2, <2>a
    <3>3. /\ B + at \in Nat /\ B + ((at + 1) + size) = ((B + at) + 1) + size /\ B + ((at + 1) + size) <= B + Len(cells)
          /\ at + 1 \in 1 .. Len(cells) /\ (B + at) + 1 = B + (at + 1)
          /\ \A j \in 1 .. size : (at + 1) + j \in 1 .. Len(cells) /\ ((B + at) + 1) + j = B + ((at + 1) + j)
      BY <3>1, <3>2
    <3> QED  BY <2>a, <2>5, <3>3
  <2>7. place(i) \in Nat /\ place(i + 1) = (place(i) + 1) + size /\ place(i + 1) <= last
    BY <2>b DEF last
  <2>8. /\ at + 1 \in 1 .. Len(cells) /\ place(i) + 1 = B + (at + 1)
        /\ \A j \in 1 .. size : (at + 1) + j \in 1 .. Len(cells) /\ (place(i) + 1) + j = B + ((at + 1) + j)
    BY <2>b
  <2>9. buf[place(i) + 1] = size /\ \A j \in 1 .. size : buf[(place(i) + 1) + j] = L[i][j]
    BY <1>4, <2>a, <2>6, <2>8
  <2> QED  BY <2>3, <2>4, <2>6, <2>7, <2>9
<1>6. place(n + 1) = last /\ place(1) = B
  <2>1. (n + 1) - 1 = n /\ 1 - 1 = 0
    BY <1>0
  <2>2. LabelCells(L, 0) = <<>>
    BY <1>h, LabelCellsNext, Zenon
  <2>3. Len(LabelCells(L, 1 - 1)) = 0
    BY <2>1, <2>2, EmptySeq
  <2>4. place(n + 1) = last
    BY <2>1
  <2>5. place(1) = B + 0
    BY <2>3
  <2>6. B + 0 = B
    BY <1>2
  <2> HIDE DEF place, last, B
  <2> QED  BY <2>4, <2>5, <2>6
<1>7. Reads(buf, M, last, From(H, n + 1), B, Len(buf))
  <2>1. Len(buf) \in Nat /\ Len(buf) <= Len(buf)
    BY <1>2, <1>4
  <2>2. SameCells(buf, buf, last, Len(buf))
    BY DEF SameCells
  <2>3. N \subseteq M
    BY <1>3
  <2>4. Reads(buf, N, last, From(H, n + 1), B, Len(buf))
    BY DEF Writes
  <2> HIDE DEF last, B
  <2> QED  BY <1>2, <1>4, <2>1, <2>2, <2>3, <2>4, ReadsKept
<1>8. ASSUME NEW i \in 1 .. n + 1  PROVE Reads(buf, M, place(i), From(H, i), B, Len(buf))
  <2>1. CASE i = n + 1
    BY <1>6, <1>7, <2>1
  <2>2. CASE i # n + 1
    <3>1. i \in 1 .. n
      BY <1>0, <2>2
    <3>2. new(i) \in M
      BY <1>3, <3>1
    <3>3. Len(buf) <= Len(buf)
      BY <1>2, <1>4
    <3> QED  BY <3>2, <3>3 DEF Reads
  <2> QED  BY <2>1, <2>2
<1>9. ASSUME NEW i \in 1 .. n  PROVE new(i) \in Entry /\ EntryOK(buf, M, new(i))
  <2> DEFINE l == L[i]
  <2>1. /\ i \in Nat /\ 1 <= i /\ i <= Len(H) /\ i <= Len(H) + 1 /\ i + 1 <= Len(H) + 1 /\ H[i] = l
        /\ place(i) \in Nat /\ Len(l) \in 1 .. MaxLabelLength
        /\ place(i + 1) = (place(i) + 1) + Len(l) /\ place(i + 1) <= last
        /\ buf[place(i) + 1] = Len(l) /\ \A j \in 1 .. Len(l) : buf[(place(i) + 1) + j] = l[j]
    <3>1. i <= Len(H) + 1
      BY <1>0
    <3> HIDE DEF place, last
    <3> QED  BY <1>5, <3>1
  <2>2. From(H, i) \in LabelLists /\ From(H, i) # <<>> /\ From(H, i)[1] = l /\ Tail(From(H, i)) = From(H, i + 1)
    BY <1>h, <2>1, FromIs
  <2>3. Dotless(From(H, i))
    BY <1>h, <2>1, FromDotless
  <2>4. Reads(buf, M, (place(i) + 1) + Len(l), Tail(From(H, i)), B, Len(buf))
    <3>1. i + 1 \in 1 .. n + 1
      BY <1>0
    <3> HIDE DEF place
    <3> QED  BY <1>8, <2>1, <2>2, <3>1
  <2>5. B <= place(i) /\ (place(i) + 1) + Len(l) < Len(buf) /\ Len(buf) <= Len(buf)
    <3>1. Len(LabelCells(L, i - 1)) \in Nat
      <4>1. i - 1 \in 0 .. Len(L)
        BY <1>0
      <4> QED  BY <1>h, <4>1, LabelCellsNext, LenProperties
    <3>2. B <= place(i)
      <4>1. \A a, b \in Nat : a <= a + b
        OBVIOUS
      <4> QED  BY <1>2, <3>1, <4>1
    <3> HIDE DEF place, last
    <3>3. place(i + 1) < Len(buf)
      <4>1. place(i + 1) \in Nat
        BY <2>1
      <4> QED  BY <1>2, <1>4, <2>1, <4>1
    <3> QED  BY <1>2, <1>4, <2>1, <3>2, <3>3
  <2>6. /\ new(i).at = place(i) /\ new(i).labels = From(H, i) /\ new(i).base = B /\ new(i).end = Len(buf)
    OBVIOUS
  <2>7. new(i) \in Entry
    <3>1. Len(buf) \in Nat
      BY <1>4, LenProperties
    <3> QED  BY <1>2, <2>1, <2>2, <3>1 DEF Entry
  <2> HIDE DEF new, place, B, l
  <2> QED  BY <2>1, <2>2, <2>3, <2>4, <2>5, <2>6, <2>7 DEF EntryOK
<1>10. NamesOK(buf, M)
  <2>1. \A m \in N : m \in Entry /\ EntryOK(buf, M, m)
    <3>1. N \subseteq M
      BY <1>3
    <3>2. N \subseteq Entry
      BY <1>h DEF NamesOK
    <3> QED  BY <1>h, <1>1, <1>4, <3>1, <3>2, NamesGrow
  <2> HIDE DEF new
  <2>2. \A m \in M : m \in Entry /\ EntryOK(buf, M, m)
    BY <1>3, <1>9, <2>1
  <2> QED  BY <2>2 DEF NamesOK
<1>11. Reads(buf, M, B, H, B, Len(buf))
  <2>1. 1 \in 1 .. n + 1 /\ From(H, 1) = H
    BY <1>h, <1>0, FromEnds
  <2> HIDE DEF place, B
  <2> QED  BY <1>6, <1>8, <2>1
<1> QED  BY <1>10, <1>11

-------------------------------------------------------------------------------

(* A suffix in ASCII is looked up by its letters.                          *)
LEMMA AsciiKey ==
    ASSUME NEW L \in LabelLists, AsciiLabels(L), NEW i \in Nat, 1 <= i, i <= Len(L)
    PROVE  SuffixKey(L, i) = FoldCase(Dotted(From(L, i)))
<1>0. Len(L) \in Nat /\ i <= Len(L) + 1
  BY LabelListTypes
<1>1. From(L, i) \in LabelLists /\ From(L, i) # <<>>
  BY <1>0, FromIs
<1>2. AsciiLabels(From(L, i))
  <2> DEFINE m == (Len(L) - i) + 1
  <2>1. \A j \in 1 .. m : (i + j) - 1 \in 1 .. Len(L)
    BY <1>0
  <2>2. Len(From(L, i)) = m /\ \A j \in 1 .. m : From(L, i)[j] = L[(i + j) - 1]
    BY <1>0, FromIs
  <2> HIDE DEF m
  <2> QED  BY <2>1, <2>2 DEF AsciiLabels
<1>3. IsAscii(Dotted(From(L, i)))
  BY <1>1, <1>2, DottedAscii
<1>4. SuffixKey(L, i) = ToLower(Dotted(From(L, i)))
  BY <1>1 DEF SuffixKey, Join, Dotted, From
<1> QED  BY <1>3, <1>4 DEF ToLower

(* It is looked up by the labels that will be read for it.                 *)
LEMMA KeyIs ==
    ASSUME NEW L \in LabelLists, AsciiLabels(L), NEW H \in LabelLists, SameLabels(L, H), NEW i \in Nat, 1 <= i, i <= Len(L)
    PROVE  SuffixKey(L, i) = FoldCase(Dotted(From(H, i)))
<1>0. Len(L) \in Nat /\ i <= Len(L) + 1 /\ Len(H) = Len(L)
  BY LabelListTypes DEF SameLabels
<1>1. From(L, i) \in LabelLists /\ From(L, i) # <<>>
  BY <1>0, FromIs
<1>2. From(H, i) \in LabelLists
  BY <1>0, FromIs
<1>3. SuffixKey(L, i) = FoldCase(Dotted(From(L, i)))
  BY AsciiKey
<1>4. SameLabels(From(L, i), From(H, i))
  BY <1>0, FromSame
<1>5. Alike(Dotted(From(L, i)), Dotted(From(H, i)))
  BY <1>1, <1>2, <1>4, DottedSame
<1>6. Dotted(From(L, i)) \in Seq(Nat) /\ Dotted(From(H, i)) \in Seq(Nat)
  BY <1>1, <1>2, DottedNext
<1> QED  BY <1>3, <1>5, <1>6, FoldIsAlike

(* What has been written can be found again.                               *)
Found(buf, table, N) == NamesOK(buf, N) /\ TableOK(table, N)

(* A name was written at the end of v.                                     *)
NameDone(v, x, N, M, text) ==
    /\ N \subseteq M /\ Found(x.buf, x.compression, M)
    /\ NamedAt(x.buf, M, Len(v.buf), text, Len(x.buf))
    /\ \A m \in M : m \in N \/ m.at >= Len(v.buf)

(* So much for the buffer; the table of suffixes leads to the new entries  *)
(* as well.                                                                *)
LEMMA LabelsDone ==
    ASSUME NEW v, NEW N, NEW text, NEW H, NEW n, NEW ending,
           Writes(v, N, SplitQName(text), H, n, ending, WriteLabels(v, SplitQName(text), n, ending).buf),
           TableOK(v.compression, N), Writable(SplitQName(text)), AsciiLabels(SplitQName(text)),
           SameLabels(SplitQName(text), H)
    PROVE  \E M : NameDone(v, WriteLabels(v, SplitQName(text), n, ending), N, M, text)
<1> DEFINE L == SplitQName(text)
           x == WriteLabels(v, L, n, ending)
           M == N \cup NewEntries(v, L, H, n, x.buf)
           B == Len(v.buf)
<1>h. /\ v \in Writer /\ NamesOK(v.buf, N) /\ L \in LabelLists /\ H \in LabelLists
      /\ n \in 0 .. Len(L) /\ ending \in Seq(Nat) /\ Len(ending) > 0
  BY DEF Writes
<1>1. Len(L) \in Nat /\ n \in Nat /\ n <= Len(L) /\ Len(ending) \in Nat
  BY <1>h, LabelListTypes, LenProperties
<1>2. Writes(v, N, L, H, n, ending, x.buf) /\ SameLabels(L, H) /\ Writable(L) /\ AsciiLabels(L)
  OBVIOUS
<1>3. x.compression = v.compression \cup {[key |-> SuffixKey(L, i), offset |-> SuffixOffset(v, L, i)] : i \in 1 .. n}
  BY <1>h DEF WriteLabels, Writer
<1>4. x.buf = (v.buf \o LabelCells(L, n)) \o ending
  BY <1>2 DEF Writes
<1> HIDE DEF L, x
<1>5. NamesOK(x.buf, M) /\ Reads(x.buf, M, B, H, B, Len(x.buf))
  BY <1>2, LabelsWritten
<1>6. TableOK(x.compression, M)
  <2>1. ASSUME NEW s \in v.compression  PROVE \E m \in M : m.at = s.offset /\ s.key = FoldCase(Dotted(m.labels))
    BY DEF TableOK
  <2>2. ASSUME NEW i \in 1 .. n
        PROVE  \E m \in M : m.at = SuffixOffset(v, L, i) /\ SuffixKey(L, i) = FoldCase(Dotted(m.labels))
    <3> DEFINE m == [at |-> SuffixOffset(v, L, i), labels |-> From(H, i), base |-> B, end |-> Len(x.buf)]
    <3>1. m \in M
      BY DEF NewEntries
    <3>2. SuffixKey(L, i) = FoldCase(Dotted(From(H, i)))
      <4>1. i \in Nat /\ 1 <= i /\ i <= Len(L)
        BY <1>1
      <4> QED  BY <1>h, <1>2, <4>1, KeyIs
    <3>3. m.at = SuffixOffset(v, L, i) /\ m.labels = From(H, i)
      OBVIOUS
    <3> HIDE DEF m, M
    <3> QED  BY <3>1, <3>2, <3>3
  <2> HIDE DEF M
  <2> QED  BY <1>3, <2>1, <2>2 DEF TableOK
<1>7. B \in Nat /\ B < Len(x.buf)
  <2>1. v.buf \in Seq(Nat) /\ LabelCells(L, n) \in Seq(Nat)
    BY <1>h, LabelCellsNext DEF Writer, Text, Cell
  <2> DEFINE c == LabelCells(L, n)
  <2> HIDE DEF c
  <2>2. v.buf \in Seq(Nat) /\ c \in Seq(Nat) /\ x.buf = (v.buf \o c) \o ending
    BY <1>4, <2>1 DEF c
  <2>3. Len(x.buf) = (Len(v.buf) + Len(c)) + Len(ending) /\ Len(v.buf) \in Nat /\ Len(c) \in Nat
    BY <1>h, <2>2, TextTypes
  <2> QED  BY <1>h, <1>1, <2>3
<1>8. NamedAt(x.buf, M, B, text, Len(x.buf))
  BY <1>h, <1>2, <1>5, <1>7 DEF NamedAt, L
<1>9. ASSUME NEW m \in M, m \notin N  PROVE m.at >= B
  <2>1. PICK i \in 1 .. n : m.at = SuffixOffset(v, L, i)
    BY <1>9 DEF NewEntries
  <2>2. i - 1 \in 0 .. Len(L)
    BY <1>1
  <2>3. Len(LabelCells(L, i - 1)) \in Nat
    BY <1>h, <2>2, LabelCellsNext, LenProperties
  <2>4. \A a, b \in Nat : a + b >= a
    OBVIOUS
  <2> QED  BY <1>7, <2>1, <2>3, <2>4 DEF SuffixOffset
<1>10. N \subseteq M
  OBVIOUS
<1> HIDE DEF M, B
<1>11. NameDone(v, x, N, M, text)
  BY <1>5, <1>6, <1>8, <1>9, <1>10 DEF NameDone, Found, B
<1> QED  BY <1>11 DEF x, L

-------------------------------------------------------------------------------

(* Where the last of three texts lies.                                     *)
LEMMA EndingAt ==
    ASSUME NEW u \in Seq(Nat), NEW c \in Seq(Nat), NEW e \in Seq(Nat)
    PROVE  LET buf == (u \o c) \o e
               p == Len(u) + Len(c)
           IN  /\ p \in Nat /\ buf \in Seq(Nat) /\ Len(e) \in Nat /\ Len(buf) = p + Len(e)
               /\ \A j \in 1 .. Len(e) : buf[p + j] = e[j]
<1> DEFINE b == u \o c
           buf == b \o e
           p == Len(u) + Len(c)
<1>1. b \in Seq(Nat) /\ Len(b) = p /\ Len(e) \in Nat
  BY TextTypes
<1> HIDE DEF b
<1>2. p \in Nat
  BY TextTypes
<1> HIDE DEF p
<1>3. buf \in Seq(Nat)
  BY <1>1, TextTypes
<1>4. Len(buf) = Len(b) + Len(e) /\ \A i \in 1 .. Len(b) + Len(e) : buf[i] = IF i <= Len(b) THEN b[i] ELSE e[i - Len(b)]
  BY <1>1, TextConcat
<1>5. ASSUME NEW j \in 1 .. Len(e)  PROVE buf[p + j] = e[j]
  <2>1. p + j \in 1 .. p + Len(e) /\ ~(p + j <= p) /\ (p + j) - p = j
    BY <1>1, <1>2
  <2> QED  BY <1>1, <1>4, <2>1
<1> QED  BY <1>1, <1>2, <1>3, <1>4, <1>5 DEF b, p

(* A name of which nothing was written before.                             *)
LEMMA WholeWritten ==
    ASSUME NEW v \in Writer, NEW N, Found(v.buf, v.compression, N), NEW text \in Seq(Nat), IsAscii(text),
           Writable(SplitQName(text))
    PROVE  \E M : NameDone(v, WriteLabels(v, SplitQName(text), Len(SplitQName(text)), <<0>>), N, M, text)
<1> DEFINE L == SplitQName(text)
           n == Len(L)
           ending == <<0>>
           x == WriteLabels(v, L, n, ending)
           B == Len(v.buf)
           c == LabelCells(L, n)
           p == B + Len(c)
<1>1. L \in LabelLists /\ Dotless(L)
  BY SplitQNameIs
<1>2. n \in Nat /\ n \in 0 .. n /\ DOMAIN L = 1 .. n /\ \A i \in 1 .. n : L[i] \in Seq(Nat)
  BY <1>1, LabelListTypes
<1>3. ending \in Seq(Nat) /\ Len(ending) = 1 /\ ending[1] = 0
  BY TextTypes
<1>4. v.buf \in Seq(Nat) /\ c \in Seq(Nat)
  BY <1>1, <1>2, LabelCellsNext DEF Writer, Text, Cell
<1>5. x.buf = (v.buf \o c) \o ending
  BY <1>1, <1>2, <1>3, WriteLabelsIs
<1>w. \A i \in 1 .. n : Len(L[i]) \in 1 .. MaxLabelLength
  BY <1>2 DEF Writable
<1> HIDE DEF L, n, ending, x, c
<1>6. p \in Nat /\ Len(x.buf) = p + 1 /\ x.buf[p + 1] = 0
  <2>1. /\ p \in Nat /\ Len((v.buf \o c) \o ending) = p + Len(ending)
        /\ \A j \in 1 .. Len(ending) : ((v.buf \o c) \o ending)[p + j] = ending[j]
    BY <1>3, <1>4, EndingAt, ZenonT(60)
  <2> HIDE DEF p
  <2>2. 1 \in 1 .. Len(ending)
    BY <1>3
  <2> QED  BY <1>3, <1>5, <2>1, <2>2
<1>7. From(L, n + 1) = <<>>
  BY <1>1, FromEnds DEF n
<1>8. Reads(x.buf, N, p, From(L, n + 1), B, Len(x.buf))
  <2>1. Len(x.buf) <= Len(x.buf)
    BY <1>6
  <2> HIDE DEF p
  <2> QED  BY <1>6, <1>7, <2>1 DEF Reads
<1>9. n \in 0 .. Len(L) /\ n <= Len(L) /\ Len(ending) > 0
  BY <1>2, <1>3 DEF n
<1>10. Writes(v, N, L, L, n, ending, x.buf)
  BY <1>1, <1>3, <1>w, <1>5, <1>8, <1>9 DEF Writes, Found, c
<1>11. SameLabels(L, L)
  BY DEF SameLabels, Alike
<1>12. AsciiLabels(L)
  BY SplitQNameIs DEF L
<1> QED  BY <1>10, <1>11, <1>12, LabelsDone DEF Found, x, ending, n, L

(* The list of the first n labels of L and those of G.                     *)
LEMMA MixedIs ==
    ASSUME NEW L \in LabelLists, NEW G \in LabelLists, NEW n \in Nat, n < Len(L), Dotless(L), Dotless(G),
           SameLabels(From(L, n + 1), G)
    PROVE  LET H == SubSeq(L, 1, n) \o G IN
           /\ H \in LabelLists /\ Dotless(H) /\ n <= Len(H) /\ SameLabels(L, H)
           /\ \A i \in 1 .. n : H[i] = L[i]
           /\ From(H, n + 1) = G
<1> DEFINE F == SubSeq(L, 1, n)
           H == F \o G
           m == Len(G)
<1>0. Len(L) \in Nat /\ L \in Seq(Seq(Nat)) /\ G \in Seq(Seq(Nat)) /\ m \in Nat /\ n + 1 <= Len(L) + 1
  BY LabelListTypes DEF LabelLists
<1>1. F \in Seq(Seq(Nat)) /\ Len(F) = n /\ \A i \in 1 .. n : F[i] = L[i]
  <2>1. \A i \in 1 .. n : L[i] \in Seq(Nat)
    BY <1>0, LabelListTypes
  <2>2. /\ F \in Seq(Seq(Nat)) /\ Len(F) = (IF 1 <= n THEN n - 1 + 1 ELSE 0)
        /\ \A i \in 1 .. n - 1 + 1 : F[i] = L[1 + i - 1]
    BY <2>1, SubSeqProperties
  <2>3. n - 1 + 1 = n /\ \A i \in 1 .. n : 1 + i - 1 = i
    OBVIOUS
  <2> HIDE DEF F
  <2>4. Len(F) = n
    BY <2>2
  <2> QED  BY <2>2, <2>3, <2>4
<1> HIDE DEF F
<1>2. /\ H \in Seq(Seq(Nat)) /\ Len(H) = n + m
      /\ \A i \in 1 .. n + m : H[i] = IF i <= n THEN F[i] ELSE G[i - n]
  <2>1. /\ H \in Seq(Seq(Nat)) /\ Len(H) = Len(F) + m
        /\ \A i \in 1 .. Len(F) + m : H[i] = IF i <= Len(F) THEN F[i] ELSE G[i - Len(F)]
    BY <1>0, <1>1, ConcatProperties
  <2> HIDE DEF H
  <2> QED  BY <1>1, <2>1
<1>f. /\ Len(From(L, n + 1)) = (Len(L) - (n + 1)) + 1
      /\ \A j \in 1 .. (Len(L) - (n + 1)) + 1 : From(L, n + 1)[j] = L[((n + 1) + j) - 1]
  <2>1. n + 1 \in Nat /\ 1 <= n + 1 /\ n + 1 <= Len(L) + 1
    BY <1>0
  <2> QED  BY <2>1, FromIs, Zenon
<1>3. m = Len(L) - n /\ m = (Len(L) - (n + 1)) + 1
  <2>1. Len(From(L, n + 1)) = m
    BY DEF SameLabels
  <2>2. m = (Len(L) - (n + 1)) + 1
    BY <1>f, <2>1
  <2>3. \A a \in Nat : (a - (n + 1)) + 1 = a - n
    OBVIOUS
  <2> QED  BY <1>0, <2>2, <2>3
<1> HIDE DEF H, m
<1>4. \A i \in 1 .. n : i \in 1 .. n + m /\ H[i] = L[i]
  <2> SUFFICES ASSUME NEW i \in 1 .. n  PROVE i \in 1 .. n + m /\ H[i] = L[i]
    OBVIOUS
  <2>1. i \in 1 .. n + m /\ i <= n
    BY <1>0
  <2> QED  BY <1>1, <1>2, <2>1
<1>5. \A j \in 1 .. m : H[n + j] = G[j]
  <2> SUFFICES ASSUME NEW j \in 1 .. m  PROVE H[n + j] = G[j]
    OBVIOUS
  <2>1. n + j \in 1 .. n + m /\ ~(n + j <= n) /\ (n + j) - n = j
    BY <1>0
  <2> QED  BY <1>2, <2>1
<1>6. H \in LabelLists /\ n <= Len(H) /\ Len(H) = Len(L)
  BY <1>0, <1>2, <1>3 DEF LabelLists
<1>s. \A i \in 1 .. n + m : i \in 1 .. n \/ \E j \in 1 .. m : i = n + j
  <2> SUFFICES ASSUME NEW i \in 1 .. n + m, i \notin 1 .. n  PROVE \E j \in 1 .. m : i = n + j
    OBVIOUS
  <2>1. i - n \in 1 .. m /\ i = n + (i - n)
    BY <1>0
  <2> QED  BY <2>1
<1>7. SameLabels(L, H)
  <2>1. ASSUME NEW i \in 1 .. n  PROVE Alike(L[i], H[i])
    BY <1>4 DEF Alike
  <2>2. ASSUME NEW j \in 1 .. m  PROVE Alike(L[n + j], H[n + j])
    <3>1. \A k \in 1 .. m : Alike(From(L, n + 1)[k], G[k])
      <4>1. Len(From(L, n + 1)) = m
        BY DEF SameLabels, m
      <4> QED  BY <4>1 DEF SameLabels
    <3>2. From(L, n + 1)[j] = L[((n + 1) + j) - 1]
      <4>1. j \in 1 .. (Len(L) - (n + 1)) + 1
        BY <1>3
      <4> QED  BY <1>f, <4>1
    <3>3. ((n + 1) + j) - 1 = n + j
      BY <1>0
    <3> QED  BY <1>5, <3>1, <3>2, <3>3
  <2>3. Len(L) = n + m
    BY <1>0, <1>3
  <2>4. \A i \in 1 .. n + m : Alike(L[i], H[i])
    BY <1>s, <2>1, <2>2
  <2> QED  BY <1>6, <2>3, <2>4 DEF SameLabels
<1>8. Dotless(H)
  <2>1. \A i \in 1 .. n : \A j \in 1 .. Len(H[i]) : H[i][j] # Dot
    <3>1. \A i \in 1 .. n : i \in 1 .. Len(L)
      BY <1>0
    <3> QED  BY <1>4, <3>1 DEF Dotless
  <2>2. \A k \in 1 .. m : \A j \in 1 .. Len(H[n + k]) : H[n + k][j] # Dot
    BY <1>5 DEF Dotless, m
  <2>3. \A i \in 1 .. n + m : \A j \in 1 .. Len(H[i]) : H[i][j] # Dot
    BY <1>s, <2>1, <2>2
  <2> QED  BY <1>2, <2>3 DEF Dotless
<1>9. From(H, n + 1) = G
  <2>1. /\ From(H, n + 1) \in LabelLists /\ Len(From(H, n + 1)) = (Len(H) - (n + 1)) + 1
        /\ \A j \in 1 .. (Len(H) - (n + 1)) + 1 : From(H, n + 1)[j] = H[((n + 1) + j) - 1]
    <3>1. n + 1 \in Nat /\ 1 <= n + 1 /\ n + 1 <= Len(H) + 1
      BY <1>0, <1>6
    <3> QED  BY <1>6, <3>1, FromIs
  <2>2. (Len(H) - (n + 1)) + 1 = m
    BY <1>0, <1>3, <1>6
  <2>3. \A j \in 1 .. m : From(H, n + 1)[j] = G[j]
    <3>1. \A j \in 1 .. m : ((n + 1) + j) - 1 = n + j
      BY <1>0
    <3> QED  BY <1>5, <2>1, <2>2, <3>1
  <2> QED  BY <1>0, <2>1, <2>2, <2>3, SeqEqual DEF LabelLists, m
<1> QED  BY <1>4, <1>6, <1>7, <1>8, <1>9 DEF H, F

-------------------------------------------------------------------------------

(* A pointer's cells: the two highest bits, and the offset in 14 bits.     *)
LEMMA PointerIs ==
    ASSUME NEW t \in Nat, t <= MaxPointer
    PROVE  /\ Pointer(t) \in Seq(Nat) /\ Len(Pointer(t)) = 2
           /\ Pointer(t)[1] = 192 + t \div 256 /\ Pointer(t)[2] = t % 256
           /\ 192 + t \div 256 \in Nat /\ t % 256 \in Nat
           /\ (192 + t \div 256) \div 64 = 3 /\ ((192 + t \div 256) % 64) * 256 + (t % 256) = t
<1>0. t < 64 * 256
  BY WireAssumption
<1>1. t \div 256 \in 0 .. 63 /\ t % 256 \in 0 .. 255 /\ (t \div 256) * 256 + (t % 256) = t
  <2>1. \A a \in Nat : a < 16384 => a \div 256 \in 0 .. 63 /\ a % 256 \in 0 .. 255 /\ (a \div 256) * 256 + (a % 256) = a
    OBVIOUS
  <2>2. t < 16384
    BY <1>0
  <2> QED  BY <2>1, <2>2
<1>2. \A q \in 0 .. 63 : (192 + q) \div 64 = 3 /\ (192 + q) % 64 = q
  OBVIOUS
<1> DEFINE q == t \div 256
           r == t % 256
<1>3. q \in 0 .. 63 /\ r \in 0 .. 255 /\ q * 256 + r = t /\ Pointer(t) = <<192 + q, r>>
  BY <1>1 DEF Pointer
<1> HIDE DEF q, r
<1>4. (192 + q) \div 64 = 3 /\ (192 + q) % 64 = q /\ 192 + q \in Nat /\ r \in Nat
  BY <1>2, <1>3
<1>5. <<192 + q, r>> \in Seq(Nat) /\ Len(<<192 + q, r>>) = 2 /\ <<192 + q, r>>[1] = 192 + q /\ <<192 + q, r>>[2] = r
  BY <1>4
<1>6. ((192 + q) % 64) * 256 + r = t
  BY <1>3, <1>4
<1>7. /\ Pointer(t) \in Seq(Nat) /\ Len(Pointer(t)) = 2
      /\ Pointer(t)[1] = 192 + q /\ Pointer(t)[2] = r
      /\ 192 + q \in Nat /\ r \in Nat
      /\ (192 + q) \div 64 = 3 /\ ((192 + q) % 64) * 256 + r = t
  BY <1>3, <1>4, <1>5, <1>6
<1> QED  BY <1>7, Zenon DEF q, r

(* A name whose labels from the i-th on were written before.               *)
LEMMA PointerWritten ==
    ASSUME NEW v \in Writer, NEW N, Found(v.buf, v.compression, N), NEW text \in Seq(Nat), IsAscii(text),
           Writable(SplitQName(text)), NEW i \in Nat, 1 <= i, i <= Len(SplitQName(text)),
           NEW m \in N, m.at <= MaxPointer, SuffixKey(SplitQName(text), i) = FoldCase(Dotted(m.labels))
    PROVE  \E M : NameDone(v, WriteLabels(v, SplitQName(text), i - 1, Pointer(m.at)), N, M, text)
<1> DEFINE L == SplitQName(text)
           n == i - 1
           ending == Pointer(m.at)
           x == WriteLabels(v, L, n, ending)
           B == Len(v.buf)
           c == LabelCells(L, n)
           p == B + Len(c)
           G == m.labels
           H == SubSeq(L, 1, n) \o G
<1>1. L \in LabelLists /\ Dotless(L) /\ AsciiLabels(L)
  BY SplitQNameIs
<1>2. /\ Len(L) \in Nat /\ n \in Nat /\ n + 1 = i /\ n < Len(L) /\ n \in 0 .. Len(L) /\ DOMAIN L = 1 .. Len(L)
      /\ i <= Len(L) + 1
  BY <1>1, LabelListTypes
<1>m. m.at \in Nat /\ G \in LabelLists /\ m.end \in Nat /\ EntryOK(v.buf, N, m) /\ NamesOK(v.buf, N)
  BY EntryTypes DEF Found, NamesOK
<1>n. G # <<>> /\ Dotless(G) /\ m.end <= Len(v.buf) /\ m.at < m.end
  <2>1. m.end <= Len(v.buf) /\ (m.at + 1) + Len(m.labels[1]) < m.end /\ Len(m.labels[1]) \in Nat
    BY <1>m DEF EntryOK, MaxLabelLength
  <2> QED  BY <1>m, <2>1, SMTT(30) DEF EntryOK
<1>3. ending \in Seq(Nat) /\ Len(ending) = 2 /\ ending[1] = 192 + m.at \div 256 /\ ending[2] = m.at % 256
  BY <1>m, PointerIs, SMTT(30)
<1>4. v.buf \in Seq(Nat) /\ c \in Seq(Nat) /\ Len(v.buf) \in Nat
  BY <1>1, <1>2, LabelCellsNext, LenProperties DEF Writer, Text, Cell
<1>5. x.buf = (v.buf \o c) \o ending
  BY <1>1, <1>2, <1>3, WriteLabelsIs
<1>w. \A j \in 1 .. n : Len(L[j]) \in 1 .. MaxLabelLength
  BY <1>2 DEF Writable
<1>s. SameLabels(From(L, i), G)
  <2>1. From(L, i) \in LabelLists /\ From(L, i) # <<>> /\ Dotless(From(L, i))
    BY <1>1, <1>2, FromIs, FromDotless
  <2>2. SuffixKey(L, i) = FoldCase(Dotted(From(L, i)))
    BY <1>1, AsciiKey
  <2>3. Dotted(From(L, i)) \in Seq(Nat) /\ Dotted(G) \in Seq(Nat)
    BY <1>m, <2>1, DottedNext
  <2>4. Alike(Dotted(From(L, i)), Dotted(G))
    BY <2>2, <2>3, FoldIsAlike
  <2> QED  BY <1>m, <1>n, <2>1, <2>4, DottedInjective
<1>g. m.at \in Nat /\ m.at <= MaxPointer /\ m.labels = G /\ m \in N
  BY <1>m
<1>u. Writable(L)
  OBVIOUS
<1> HIDE DEF L, n, ending, x, c, G
<1>h. /\ H \in LabelLists /\ Dotless(H) /\ n <= Len(H) /\ SameLabels(L, H)
      /\ \A j \in 1 .. n : H[j] = L[j]
      /\ From(H, n + 1) = G
  BY <1>1, <1>2, <1>m, <1>n, <1>s, MixedIs
<1> HIDE DEF H
<1>6. p \in Nat /\ Len(x.buf) = p + 2 /\ x.buf[p + 1] = ending[1] /\ x.buf[p + 2] = ending[2]
  <2>1. /\ p \in Nat /\ Len((v.buf \o c) \o ending) = p + Len(ending)
        /\ \A j \in 1 .. Len(ending) : ((v.buf \o c) \o ending)[p + j] = ending[j]
    <3>1. v.buf \in Seq(Nat) /\ c \in Seq(Nat) /\ ending \in Seq(Nat)
      BY <1>3, <1>4
    <3> QED  BY <3>1, EndingAt, Zenon
  <2> HIDE DEF p
  <2>2. 1 \in 1 .. Len(ending) /\ 2 \in 1 .. Len(ending)
    BY <1>3
  <2> QED  BY <1>3, <1>5, <2>1, <2>2, ZenonT(60)
<1>8. Reads(x.buf, N, p, G, B, Len(x.buf))
  <2>1. Len(x.buf) <= Len(x.buf)
    BY <1>6
  <2>2. m.at < B
    BY <1>4, <1>m, <1>n
  <2> HIDE DEF p, B
  <2> QED  BY <1>3, <1>6, <1>g, <1>n, <2>1, <2>2 DEF Reads
<1>9. Len(ending) > 0
  BY <1>3
<1>10. Writes(v, N, L, H, n, ending, x.buf)
  BY <1>1, <1>2, <1>3, <1>m, <1>w, <1>5, <1>8, <1>9, <1>h DEF Writes, c
<1>11. TableOK(v.compression, N)
  BY DEF Found
<1>12. \E M : NameDone(v, WriteLabels(v, L, n, ending), N, M, text)
  BY <1>1, <1>10, <1>11, <1>h, <1>u, LabelsDone DEF x, L
<1> QED  BY <1>12 DEF L, n, ending

(* A name that was written can be read again, and everything before it     *)
(* still can.                                                              *)
LEMMA NameWritten ==
    ASSUME NEW v \in Writer, NEW N, Found(v.buf, v.compression, N), NEW text \in Seq(Nat), IsAscii(text),
           WriteName(v, text).ok
    PROVE  \E M : NameDone(v, WriteName(v, text), N, M, text)
<1> DEFINE L == SplitQName(text)
           known == {i \in DOMAIN L : \E s \in v.compression : s.key = SuffixKey(L, i)}
<1>1. WriteName(v, text) = IF ~Writable(L) THEN Failed(v)
                           ELSE IF known = {} THEN WriteLabels(v, L, Len(L), <<0>>)
                           ELSE PointBack(v, L, Min(known))
  BY DEF WriteName
<1>2. ~Failed(v).ok
  BY DEF Failed, Writer
<1>3. Writable(L)
  BY <1>1, <1>2
<1>4. L \in LabelLists
  BY SplitQNameIs
<1>5. Len(L) \in Nat /\ DOMAIN L = 1 .. Len(L)
  BY <1>4, LabelListTypes
<1>6. CASE known = {}
  <2>1. WriteName(v, text) = WriteLabels(v, L, Len(L), <<0>>)
    BY <1>1, <1>3, <1>6
  <2> HIDE DEF known
  <2> QED  BY <1>3, <2>1, WholeWritten
<1>7. CASE known # {}
  <2> DEFINE i == Min(known)
             s == CHOOSE s \in v.compression : s.key = SuffixKey(L, i)
  <2>1. known \subseteq 1 .. Len(L)
    BY <1>5
  <2>2. i \in known
    <3> HIDE DEF known, L
    <3> QED  BY <1>5, <1>7, <2>1, Ends
  <2>3. s \in v.compression /\ s.key = SuffixKey(L, i)
    <3>1. \E t \in v.compression : t.key = SuffixKey(L, i)
      BY <2>2
    <3> QED  BY <3>1
  <2>4. WriteName(v, text) = PointBack(v, L, i)
    BY <1>1, <1>3, <1>7
  <2>5. PointBack(v, L, i) = IF s.offset > MaxPointer THEN Failed(v) ELSE WriteLabels(v, L, i - 1, Pointer(s.offset))
    BY DEF PointBack
  <2>6. i \in Nat /\ 1 <= i /\ i <= Len(L)
    BY <1>5, <2>1, <2>2
  <2> HIDE DEF s, i, known
  <2>7. PICK m \in N : m.at = s.offset /\ s.key = FoldCase(Dotted(m.labels))
    BY <2>3 DEF Found, TableOK
  <2>8. m.at \in Nat /\ MaxPointer \in Nat
    BY EntryTypes, WireAssumption DEF Found, NamesOK
  <2>9. m.at <= MaxPointer
    BY <1>2, <2>4, <2>5, <2>7, <2>8
  <2>10. WriteName(v, text) = WriteLabels(v, L, i - 1, Pointer(m.at))
    BY <2>4, <2>5, <2>7, <2>8, <2>9
  <2>11. SuffixKey(L, i) = FoldCase(Dotted(m.labels))
    BY <2>3, <2>7
  <2> QED  BY <1>3, <2>6, <2>9, <2>10, <2>11, PointerWritten
<1> QED  BY <1>6, <1>7

-------------------------------------------------------------------------------

(* Positions that never go back.                                           *)
Rising(x) == x \in Seq(Nat) /\ \A i, j \in 1 .. Len(x) : i <= j => x[i] <= x[j]

(* The cells from a on.                                                    *)
CellsAt(buf, a, value) == \A i \in 1 .. Len(value) : buf[a + i] = value[i]

(* A field of a record's data from a to b.                                 *)
ItemAt(buf, N, item, a, b) ==
    /\ a <= b /\ b <= Len(buf)
    /\ \/ item.op = "name" /\ NamedAt(buf, N, a, item.value, b)
       \/ /\ item.op = "counted" /\ b = (a + 1) + Len(item.value)
          /\ buf[a + 1] = Len(item.value) /\ CellsAt(buf, a + 1, item.value)
       \/ item.op \notin {"name", "counted"} /\ b = a + Len(item.value) /\ CellsAt(buf, a, item.value)

(* The first k fields, one after the other; x has their positions.         *)
ItemsAt(buf, N, items, k, x) ==
    /\ Rising(x) /\ Len(x) = k + 1
    /\ \A j \in 1 .. k : ItemAt(buf, N, items[j], x[j], x[j + 1])

(* What is written of a record's data.                                     *)
Items(r) == IF r.parsed THEN r.data ELSE <<[op |-> "rest", value |-> r.raw]>>

(* The name and the type of a record from a on; its data begins at d.      *)
HeadAt(buf, N, r, a, d) ==
    \E e \in Nat : d = e + 2 /\ d <= Len(buf) /\ NamedAt(buf, N, a, r.name, e) /\ buf[e + 1] = r.type

QuestionAt(buf, N, q, a, b) ==
    \E e \in Nat : b = e + 1 /\ b <= Len(buf) /\ NamedAt(buf, N, a, q.name, e) /\ buf[e + 1] = q.type

RecordAt(buf, N, r, a, b) ==
    \E d \in Nat, x \in Seq(Nat) :
        /\ HeadAt(buf, N, r, a, d) /\ a <= d /\ d > 0 /\ buf[d] = b - d
        /\ ItemsAt(buf, N, Items(r), Len(Items(r)), x) /\ x[1] = d /\ x[Len(Items(r)) + 1] = b

(* The questions and records of a message, one after the other.            *)
PartAt(buf, N, m, i, a, b) ==
    IF i <= Len(m.questions) THEN QuestionAt(buf, N, m.questions[i], a, b)
                             ELSE RecordAt(buf, N, m.records[i - Len(m.questions)], a, b)

PartsAt(buf, N, m, k, s) ==
    /\ Rising(s) /\ Len(s) = k + 1 /\ s[1] = 2
    /\ \A i \in 1 .. k : PartAt(buf, N, m, i, s[i], s[i + 1])

(* More cells and more names; the cells from a to b are the same.          *)
Grows(buf, more, N, M, a, b) ==
    /\ buf \in Seq(Nat) /\ more \in Seq(Nat) /\ Len(buf) <= Len(more)
    /\ N \subseteq M /\ a \in Nat /\ b \in Nat /\ SameCells(buf, more, a, b)

(* What is so for some cells is so for part of them.                       *)
LEMMA GrowsWithin ==
    ASSUME NEW buf, NEW more, NEW N, NEW M, NEW a, NEW b, Grows(buf, more, N, M, a, b),
           NEW c \in Nat, NEW d \in Nat, a <= c, d <= b
    PROVE  Grows(buf, more, N, M, c, d)
<1>1. a \in Nat /\ b \in Nat
  BY DEF Grows
<1>2. \A i \in c + 1 .. d : i \in a + 1 .. b
  BY <1>1
<1> QED  BY <1>2 DEF Grows, SameCells

(* A field of the data stays where it is.                                  *)
LEMMA ItemKept ==
    ASSUME NEW buf, NEW more, NEW N, NEW M, NEW a, NEW b, Grows(buf, more, N, M, a, b),
           NEW item \in Item, ItemAt(buf, N, item, a, b)
    PROVE  ItemAt(more, M, item, a, b)
<1>0. /\ buf \in Seq(Nat) /\ more \in Seq(Nat) /\ Len(buf) <= Len(more) /\ N \subseteq M
      /\ a \in Nat /\ b \in Nat /\ SameCells(buf, more, a, b)
  BY DEF Grows
<1>1. a <= b /\ b <= Len(buf)
  BY DEF ItemAt
<1>2. Len(buf) \in Nat /\ Len(more) \in Nat /\ Len(item.value) \in Nat
  BY <1>0, LenProperties DEF Item, Text, Cell
<1>3. b <= Len(more)
  BY <1>0, <1>1, <1>2
<1>4. CASE item.op = "name"
  <2>1. NamedAt(buf, N, a, item.value, b)
    BY <1>4 DEF ItemAt
  <2>2. NamedAt(more, M, a, item.value, b)
    BY <1>0, <2>1, NamedKept
  <2> QED  BY <1>1, <1>3, <1>4, <2>2 DEF ItemAt
<1>5. CASE item.op = "counted"
  <2>1. b = (a + 1) + Len(item.value) /\ buf[a + 1] = Len(item.value) /\ CellsAt(buf, a + 1, item.value)
    BY <1>5 DEF ItemAt
  <2>2. a + 1 \in a + 1 .. b /\ \A i \in 1 .. Len(item.value) : (a + 1) + i \in a + 1 .. b
    <3>1. \A f, t, n \in Nat : t = (f + 1) + n => f + 1 \in f + 1 .. t /\ \A i \in 1 .. n : (f + 1) + i \in f + 1 .. t
      OBVIOUS
    <3> QED  BY <1>0, <1>2, <2>1, <3>1
  <2>3. more[a + 1] = Len(item.value) /\ CellsAt(more, a + 1, item.value)
    BY <1>0, <2>1, <2>2 DEF SameCells, CellsAt
  <2> QED  BY <1>1, <1>3, <1>5, <2>1, <2>3 DEF ItemAt
<1>6. CASE item.op \notin {"name", "counted"}
  <2>1. b = a + Len(item.value) /\ CellsAt(buf, a, item.value)
    BY <1>6 DEF ItemAt
  <2>2. \A i \in 1 .. Len(item.value) : a + i \in a + 1 .. b
    BY <1>0, <1>2, <2>1
  <2>3. CellsAt(more, a, item.value)
    BY <1>0, <2>1, <2>2 DEF SameCells, CellsAt
  <2> QED  BY <1>1, <1>3, <1>6, <2>1, <2>3 DEF ItemAt
<1> QED  BY <1>4, <1>5, <1>6

(* The positions of a path.                                                *)
LEMMA RisingIs ==
    ASSUME NEW x, NEW k \in Nat, Rising(x), Len(x) = k + 1
    PROVE  /\ \A j \in 1 .. k : x[j] \in Nat /\ x[j + 1] \in Nat /\ x[1] <= x[j] /\ x[j] <= x[j + 1] /\ x[j + 1] <= x[k + 1]
           /\ x[1] \in Nat /\ x[k + 1] \in Nat /\ x[1] <= x[k + 1]
<1>1. x \in Seq(Nat) /\ \A i, j \in 1 .. k + 1 : i <= j => x[i] <= x[j]
  BY DEF Rising
<1>2. \A j \in 1 .. k + 1 : x[j] \in Nat
  BY <1>1, TextTypes
<1>3. ASSUME NEW j \in 1 .. k
      PROVE  x[j] \in Nat /\ x[j + 1] \in Nat /\ x[1] <= x[j] /\ x[j] <= x[j + 1] /\ x[j + 1] <= x[k + 1]
  <2>1. /\ j \in 1 .. k + 1 /\ j + 1 \in 1 .. k + 1 /\ 1 \in 1 .. k + 1 /\ k + 1 \in 1 .. k + 1
        /\ 1 <= j /\ j <= j + 1 /\ j + 1 <= k + 1
    OBVIOUS
  <2> QED  BY <1>1, <1>2, <2>1
<1>4. 1 \in 1 .. k + 1 /\ k + 1 \in 1 .. k + 1 /\ 1 <= k + 1
  OBVIOUS
<1> QED  BY <1>1, <1>2, <1>3, <1>4

(* A path goes on.                                                         *)
LEMMA RisingMore ==
    ASSUME NEW x, NEW k \in Nat, Rising(x), Len(x) = k + 1, NEW b \in Nat, x[k + 1] <= b
    PROVE  /\ Rising(Append(x, b)) /\ Len(Append(x, b)) = (k + 1) + 1 /\ Append(x, b)[(k + 1) + 1] = b
           /\ \A j \in 1 .. k + 1 : Append(x, b)[j] = x[j]
<1> DEFINE y == Append(x, b)
<1>0. x \in Seq(Nat) /\ \A i, j \in 1 .. k + 1 : i <= j => x[i] <= x[j]
  BY DEF Rising
<1>1. /\ y \in Seq(Nat) /\ Len(y) = (k + 1) + 1 /\ y[(k + 1) + 1] = b
      /\ \A j \in 1 .. k + 1 : y[j] = x[j]
  BY <1>0, AppendProperties
<1>2. \A j \in 1 .. k + 1 : x[j] \in Nat /\ x[j] <= b
  <2>1. \A j \in 1 .. k + 1 : x[j] \in Nat /\ x[j] <= x[k + 1]
    <3>1. \A j \in 1 .. k + 1 : j <= k + 1 /\ k + 1 \in 1 .. k + 1
      OBVIOUS
    <3> QED  BY <1>0, <3>1, TextTypes
  <2>2. x[k + 1] \in Nat
    <3>1. k + 1 \in 1 .. k + 1
      OBVIOUS
    <3> QED  BY <2>1, <3>1
  <2> QED  BY <2>1, <2>2
<1> HIDE DEF y
<1>3. ASSUME NEW i \in 1 .. (k + 1) + 1, NEW j \in 1 .. (k + 1) + 1, i <= j  PROVE y[i] <= y[j]
  <2>1. CASE j \in 1 .. k + 1
    <3>1. i \in 1 .. k + 1
      BY <1>3, <2>1
    <3> QED  BY <1>0, <1>1, <1>3, <2>1, <3>1
  <2>2. CASE j = (k + 1) + 1 /\ i \in 1 .. k + 1
    BY <1>1, <1>2, <2>2
  <2>3. CASE j = (k + 1) + 1 /\ i = (k + 1) + 1
    BY <1>1, <2>3
  <2> QED  BY <1>3, <2>1, <2>2, <2>3
<1>4. Rising(y)
  BY <1>1, <1>3 DEF Rising
<1> QED  BY <1>1, <1>4 DEF y

-------------------------------------------------------------------------------

(* So do the fields up to the k-th.                                        *)
LEMMA ItemsKept ==
    ASSUME NEW buf, NEW more, NEW N, NEW M, NEW items, NEW k \in Nat, NEW x, ItemsAt(buf, N, items, k, x),
           \A j \in 1 .. k : items[j] \in Item, Grows(buf, more, N, M, x[1], x[k + 1])
    PROVE  ItemsAt(more, M, items, k, x)
<1>0. Rising(x) /\ Len(x) = k + 1
  BY DEF ItemsAt
<1>1. ASSUME NEW j \in 1 .. k  PROVE ItemAt(more, M, items[j], x[j], x[j + 1])
  <2>1. x[j] \in Nat /\ x[j + 1] \in Nat /\ x[1] <= x[j] /\ x[j + 1] <= x[k + 1]
    BY <1>0, RisingIs
  <2>2. Grows(buf, more, N, M, x[j], x[j + 1])
    BY <2>1, GrowsWithin
  <2> QED  BY <2>2, ItemKept DEF ItemsAt
<1> QED  BY <1>0, <1>1 DEF ItemsAt

(* So do the name and the type of a record.                                *)
LEMMA HeadKept ==
    ASSUME NEW buf, NEW more, NEW N, NEW M, NEW r, NEW a \in Nat, NEW d \in Nat, HeadAt(buf, N, r, a, d),
           Grows(buf, more, N, M, a, d - 1)
    PROVE  HeadAt(more, M, r, a, d)
<1>1. PICK e \in Nat : d = e + 2 /\ d <= Len(buf) /\ NamedAt(buf, N, a, r.name, e) /\ buf[e + 1] = r.type
  BY DEF HeadAt
<1>0. buf \in Seq(Nat) /\ more \in Seq(Nat) /\ Len(buf) <= Len(more) /\ N \subseteq M /\ SameCells(buf, more, a, d - 1)
  BY DEF Grows
<1>l. Len(buf) \in Nat /\ Len(more) \in Nat
  BY <1>0, LenProperties
<1>2. d <= Len(more)
  BY <1>0, <1>1, <1>l
<1>3. a < e
  BY <1>1 DEF NamedAt
<1>4. e + 1 \in a + 1 .. d - 1 /\ \A i \in a + 1 .. e : i \in a + 1 .. d - 1
  BY <1>1, <1>3
<1>5. SameCells(buf, more, a, e) /\ more[e + 1] = buf[e + 1]
  BY <1>0, <1>4 DEF SameCells
<1>6. NamedAt(more, M, a, r.name, e)
  BY <1>0, <1>1, <1>5, NamedKept
<1> QED  BY <1>1, <1>2, <1>5, <1>6 DEF HeadAt

(* So does a question.                                                     *)
LEMMA QuestionKept ==
    ASSUME NEW buf, NEW more, NEW N, NEW M, NEW q, NEW a, NEW b, QuestionAt(buf, N, q, a, b),
           Grows(buf, more, N, M, a, b)
    PROVE  QuestionAt(more, M, q, a, b)
<1>1. PICK e \in Nat : b = e + 1 /\ b <= Len(buf) /\ NamedAt(buf, N, a, q.name, e) /\ buf[e + 1] = q.type
  BY DEF QuestionAt
<1>0. /\ buf \in Seq(Nat) /\ more \in Seq(Nat) /\ Len(buf) <= Len(more) /\ N \subseteq M /\ SameCells(buf, more, a, b)
      /\ a \in Nat
  BY DEF Grows
<1>l. Len(buf) \in Nat /\ Len(more) \in Nat
  BY <1>0, LenProperties
<1>2. b <= Len(more)
  BY <1>0, <1>1, <1>l
<1>3. a < e
  BY <1>1 DEF NamedAt
<1>4. e + 1 \in a + 1 .. b /\ \A i \in a + 1 .. e : i \in a + 1 .. b
  BY <1>0, <1>1, <1>3
<1>5. SameCells(buf, more, a, e) /\ more[e + 1] = buf[e + 1]
  BY <1>0, <1>4 DEF SameCells
<1>6. NamedAt(more, M, a, q.name, e)
  BY <1>0, <1>1, <1>5, NamedKept
<1> QED  BY <1>1, <1>2, <1>5, <1>6 DEF QuestionAt

(* What is written of a record's data, well typed.                         *)
LEMMA ItemsTypes ==
    ASSUME NEW r \in Record
    PROVE  Items(r) \in Seq(Item) /\ Len(Items(r)) \in Nat /\ \A j \in 1 .. Len(Items(r)) : Items(r)[j] \in Item
<1> DEFINE one == [op |-> "rest", value |-> r.raw]
<1>1. r.data \in Seq(Item) /\ one \in Item
  BY DEF Record, Item, Text, Cell
<1> HIDE DEF one
<1>2. <<one>> \in Seq(Item)
  BY <1>1
<1>3. Items(r) \in Seq(Item)
  BY <1>1, <1>2 DEF Items, one
<1> HIDE DEF Items
<1> QED  BY <1>3, LenProperties, ElementOfSeq

(* So does a record, with the length before its data.                      *)
LEMMA RecordKept ==
    ASSUME NEW buf, NEW more, NEW N, NEW M, NEW r \in Record, NEW a, NEW b, RecordAt(buf, N, r, a, b),
           Grows(buf, more, N, M, a, b)
    PROVE  RecordAt(more, M, r, a, b)
<1> DEFINE n == Len(Items(r))
<1>0. n \in Nat /\ \A j \in 1 .. n : Items(r)[j] \in Item
  BY ItemsTypes
<1>1. PICK d \in Nat, x \in Seq(Nat) :
        /\ HeadAt(buf, N, r, a, d) /\ a <= d /\ d > 0 /\ buf[d] = b - d
        /\ ItemsAt(buf, N, Items(r), n, x) /\ x[1] = d /\ x[n + 1] = b
  BY DEF RecordAt
<1> HIDE DEF n
<1>2. d <= b /\ a \in Nat /\ b \in Nat
  <2>1. x[1] <= x[n + 1]
    BY <1>0, <1>1, RisingIs DEF ItemsAt
  <2> QED  BY <1>1, <2>1 DEF Grows
<1>3. HeadAt(more, M, r, a, d)
  <2>1. d - 1 \in Nat /\ d - 1 <= b /\ a <= a
    BY <1>1, <1>2
  <2>2. Grows(buf, more, N, M, a, d - 1)
    BY <1>2, <2>1, GrowsWithin
  <2> QED  BY <1>1, <1>2, <2>2, HeadKept
<1>4. ItemsAt(more, M, Items(r), n, x)
  <2>1. Grows(buf, more, N, M, d, b)
    <3>1. b <= b
      BY <1>2
    <3> QED  BY <1>1, <1>2, <3>1, GrowsWithin
  <2> QED  BY <1>0, <1>1, <2>1, ItemsKept
<1>5. more[d] = buf[d]
  <2>1. d \in a + 1 .. b
    <3>1. PICK e \in Nat : d = e + 2 /\ a < e
      BY <1>1 DEF HeadAt, NamedAt
    <3> QED  BY <1>2, <3>1
  <2> QED  BY <2>1 DEF Grows, SameCells
<1> QED  BY <1>1, <1>3, <1>4, <1>5 DEF RecordAt, n

(* So do the first k parts of a message.                                   *)
LEMMA PartsKept ==
    ASSUME NEW buf, NEW more, NEW N, NEW M, NEW m \in Message, NEW k \in Nat, k <= Len(m.questions) + Len(m.records), NEW s,
           PartsAt(buf, N, m, k, s), Grows(buf, more, N, M, s[1], s[k + 1])
    PROVE  PartsAt(more, M, m, k, s)
<1>0. Rising(s) /\ Len(s) = k + 1 /\ s[1] = 2
  BY DEF PartsAt
<1>t. /\ Len(m.questions) \in Nat /\ Len(m.records) \in Nat
      /\ \A i \in 1 .. Len(m.records) : m.records[i] \in Record
  BY LenProperties, ElementOfSeq DEF Message, Record
<1>1. ASSUME NEW i \in 1 .. k  PROVE PartAt(more, M, m, i, s[i], s[i + 1])
  <2>1. s[i] \in Nat /\ s[i + 1] \in Nat /\ s[1] <= s[i] /\ s[i + 1] <= s[k + 1]
    BY <1>0, RisingIs
  <2>2. Grows(buf, more, N, M, s[i], s[i + 1])
    BY <2>1, GrowsWithin
  <2>3. PartAt(buf, N, m, i, s[i], s[i + 1])
    BY DEF PartsAt
  <2>4. CASE i <= Len(m.questions)
    BY <2>2, <2>3, <2>4, QuestionKept DEF PartAt
  <2>5. CASE ~(i <= Len(m.questions))
    <3>1. i - Len(m.questions) \in 1 .. Len(m.records)
      <4>1. \A p, q, r \in Nat : p <= k /\ k <= q + r /\ ~(p <= q) => p - q \in 1 .. r
        OBVIOUS
      <4>2. i \in Nat /\ i <= k
        OBVIOUS
      <4> QED  BY <1>t, <2>5, <4>1, <4>2
    <3>2. RecordAt(buf, N, m.records[i - Len(m.questions)], s[i], s[i + 1])
      BY <2>3, <2>5 DEF PartAt
    <3>3. RecordAt(more, M, m.records[i - Len(m.questions)], s[i], s[i + 1])
      BY <1>t, <2>2, <3>1, <3>2, RecordKept
    <3> QED  BY <2>5, <3>3 DEF PartAt
  <2> QED  BY <2>4, <2>5
<1> QED  BY <1>0, <1>1 DEF PartsAt

-------------------------------------------------------------------------------

(* The first k parts of a message are written: the counts come first.      *)
Laid(v, N, m, k, s) ==
    /\ Found(v.buf, v.compression, N) /\ PartsAt(v.buf, N, m, k, s) /\ s[k + 1] <= Len(v.buf)
    /\ 2 <= Len(v.buf) /\ v.buf[1] = Len(m.questions) /\ v.buf[2] = Len(m.records)

(* No name lies over the cell at p.                                        *)
Avoids(N, p) == \A n \in N : n.end < p \/ n.at >= p

(* What has been written before stays, whatever is written after it.       *)
LEMMA FoundGrows ==
    ASSUME NEW buf \in Seq(Nat), NEW more \in Seq(Nat), Begins(buf, more), NEW table, NEW N, Found(buf, table, N)
    PROVE  Found(more, table, N)
<1>1. \A n \in N : EntryOK(more, N, n)
  BY NamesGrow DEF Found
<1> QED  BY <1>1 DEF Found, NamesOK

(* The parts that were laid out stay so when cells are added at the end.   *)
LEMMA LaidGrows ==
    ASSUME NEW v \in Writer, NEW y \in Writer, Begins(v.buf, y.buf), NEW N, NEW M, N \subseteq M,
           Found(y.buf, y.compression, M),
           NEW m \in Message, NEW k \in Nat, k <= Len(m.questions) + Len(m.records), NEW s, Laid(v, N, m, k, s)
    PROVE  Laid(y, M, m, k, s)
<1>0. v.buf \in Seq(Nat) /\ y.buf \in Seq(Nat)
  BY DEF Writer, Text, Cell
<1>1. Len(v.buf) \in Nat /\ Len(y.buf) \in Nat /\ Len(v.buf) <= Len(y.buf) /\ \A i \in 1 .. Len(v.buf) : v.buf[i] = y.buf[i]
  BY <1>0, LenProperties DEF Begins
<1>2. PartsAt(v.buf, N, m, k, s) /\ s[k + 1] <= Len(v.buf) /\ 2 <= Len(v.buf)
  BY DEF Laid
<1>3. s[1] \in Nat /\ s[k + 1] \in Nat
  BY <1>2, RisingIs DEF PartsAt
<1>4. \A i \in s[1] + 1 .. s[k + 1] : i \in 1 .. Len(v.buf)
  BY <1>1, <1>2, <1>3
<1>5. Grows(v.buf, y.buf, N, M, s[1], s[k + 1])
  BY <1>0, <1>1, <1>3, <1>4 DEF Grows, SameCells
<1>6. PartsAt(y.buf, M, m, k, s)
  BY <1>2, <1>5, PartsKept
<1>7. s[k + 1] <= Len(y.buf) /\ 2 <= Len(y.buf)
  BY <1>1, <1>2, <1>3
<1>8. y.buf[1] = v.buf[1] /\ y.buf[2] = v.buf[2]
  <2>1. 1 \in 1 .. Len(v.buf) /\ 2 \in 1 .. Len(v.buf)
    BY <1>1, <1>2
  <2> QED  BY <1>1, <2>1
<1> QED  BY <1>6, <1>7, <1>8 DEF Laid

(* A name and some cells after it.                                         *)
Added(v, y, N, M, text, cells) ==
    \E e \in Nat :
        /\ N \subseteq M /\ Found(y.buf, y.compression, M)
        /\ y \in Writer /\ Begins(v.buf, y.buf) /\ Len(v.buf) < e
        /\ NamedAt(y.buf, M, Len(v.buf), text, e)
        /\ Len(y.buf) = e + Len(cells) /\ \A i \in 1 .. Len(cells) : y.buf[e + i] = cells[i]
        /\ \A n \in M : (n \in N \/ n.at >= Len(v.buf)) /\ n.end <= e

(* A name and the cells after it are added at the end.                     *)
LEMMA NamePut ==
    ASSUME NEW v \in Writer, NEW N, Found(v.buf, v.compression, N), NEW text \in Seq(Nat), IsAscii(text),
           NEW cells \in Seq(Nat), Put(WriteName(v, text), cells).ok
    PROVE  \E M : Added(v, Put(WriteName(v, text), cells), N, M, text, cells)
<1> DEFINE x == WriteName(v, text)
           y == Put(x, cells)
           e == Len(x.buf)
<1>1. Kept(v, x)
  BY WriteNameKeeps
<1>2. x \in Writer /\ Begins(v.buf, x.buf)
  BY <1>1 DEF Kept
<1>p. /\ y \in Writer /\ Begins(x.buf, y.buf) /\ y.buf = x.buf \o cells
      /\ y.ok = x.ok /\ y.compression = x.compression
  <2> HIDE DEF x
  <2> QED  BY <1>2, PutIs
<1>k. y.ok
  OBVIOUS
<1> HIDE DEF y
<1>3. PICK M : NameDone(v, x, N, M, text)
  BY <1>p, <1>k, NameWritten
<1> HIDE DEF x
<1>4. x.buf \in Seq(Nat) /\ y.buf \in Seq(Nat) /\ v.buf \in Seq(Nat)
  BY <1>2, <1>p DEF Writer, Text, Cell
<1>5. e \in Nat /\ Len(v.buf) \in Nat /\ Len(cells) \in Nat
  BY <1>4, LenProperties
<1>6. Begins(v.buf, y.buf)
  BY <1>2, <1>4, <1>p, BeginsIs
<1>7. N \subseteq M /\ Found(x.buf, x.compression, M) /\ NamedAt(x.buf, M, Len(v.buf), text, e)
  BY <1>3 DEF NameDone
<1>8. Found(y.buf, y.compression, M)
  BY <1>4, <1>7, <1>p, FoundGrows
<1>9. Len(y.buf) = e + Len(cells) /\ \A i \in 1 .. e + Len(cells) : y.buf[i] = IF i <= e THEN x.buf[i] ELSE cells[i - e]
  BY <1>4, <1>p, TextConcat
<1>10. Len(v.buf) < e
  BY <1>7 DEF NamedAt
<1>11. NamedAt(y.buf, M, Len(v.buf), text, e)
  <2>1. \A i \in Len(v.buf) + 1 .. e : i \in 1 .. e + Len(cells) /\ i <= e
    BY <1>5
  <2>2. SameCells(x.buf, y.buf, Len(v.buf), e)
    BY <1>9, <2>1 DEF SameCells
  <2>3. Len(x.buf) <= Len(y.buf)
    BY <1>5, <1>9
  <2> QED  BY <1>4, <1>5, <1>7, <2>2, <2>3, NamedKept
<1>12. ASSUME NEW i \in 1 .. Len(cells)  PROVE y.buf[e + i] = cells[i]
  <2>1. e + i \in 1 .. e + Len(cells) /\ ~(e + i <= e) /\ (e + i) - e = i
    BY <1>5
  <2> QED  BY <1>9, <2>1
<1>13. ASSUME NEW n \in M  PROVE (n \in N \/ n.at >= Len(v.buf)) /\ n.end <= e
  BY <1>3, <1>7 DEF NameDone, Found, NamesOK, EntryOK
<1> HIDE DEF e
<1>14. Added(v, y, N, M, text, cells)
  BY <1>5, <1>6, <1>7, <1>8, <1>9, <1>10, <1>11, <1>12, <1>13, <1>p DEF Added
<1> QED  BY <1>14 DEF y, x

-------------------------------------------------------------------------------

(* One more part.                                                          *)
LEMMA PartAdded ==
    ASSUME NEW y \in Writer, NEW M, NEW m, NEW k \in Nat, NEW s, Laid(y, M, m, k, s),
           PartAt(y.buf, M, m, k + 1, s[k + 1], Len(y.buf))
    PROVE  Laid(y, M, m, k + 1, Append(s, Len(y.buf))) /\ Append(s, Len(y.buf))[(k + 1) + 1] = Len(y.buf)
<1> DEFINE b == Len(y.buf)
           t == Append(s, b)
<1>0. b \in Nat
  BY LenProperties DEF Writer, Text, Cell
<1>1. Rising(s) /\ Len(s) = k + 1 /\ s[1] = 2 /\ s[k + 1] <= b
  BY DEF Laid, PartsAt
<1>2. Rising(t) /\ Len(t) = (k + 1) + 1 /\ t[(k + 1) + 1] = b /\ \A j \in 1 .. k + 1 : t[j] = s[j]
  <2> HIDE DEF b
  <2> QED  BY <1>0, <1>1, RisingMore
<1>3. PartAt(y.buf, M, m, k + 1, s[k + 1], b) /\ \A i \in 1 .. k : PartAt(y.buf, M, m, i, s[i], s[i + 1])
  BY DEF Laid, PartsAt
<1> HIDE DEF t, b
<1>4. ASSUME NEW i \in 1 .. k + 1  PROVE PartAt(y.buf, M, m, i, t[i], t[i + 1])
  <2>1. CASE i \in 1 .. k
    <3>1. i \in 1 .. k + 1 /\ i + 1 \in 1 .. k + 1
      BY <2>1
    <3>2. t[i] = s[i] /\ t[i + 1] = s[i + 1]
      BY <1>2, <3>1
    <3> QED  BY <1>3, <2>1, <3>2
  <2>2. CASE i = k + 1
    <3>1. t[i] = s[k + 1] /\ t[i + 1] = b
      BY <1>2, <2>2
    <3> QED  BY <1>3, <2>2, <3>1
  <2> QED  BY <2>1, <2>2
<1>5. t[1] = 2 /\ t[(k + 1) + 1] <= b
  <2>1. 1 \in 1 .. k + 1 /\ b <= b
    BY <1>0
  <2> QED  BY <1>1, <1>2, <2>1
<1>6. PartsAt(y.buf, M, m, k + 1, t)
  BY <1>2, <1>4, <1>5 DEF PartsAt
<1>7. Laid(y, M, m, k + 1, t)
  BY <1>5, <1>6 DEF Laid, b
<1> QED  BY <1>2, <1>7 DEF t, b

(* What is known before a question is written.                             *)
BeforeQuestion(v, N, m, k, s, name, cells) ==
    /\ v \in Writer /\ m \in Message /\ k \in Nat /\ k < Len(m.questions)
    /\ Laid(v, N, m, k, s) /\ s[k + 1] = Len(v.buf) /\ m.questions[k + 1] \in Question
    /\ name = m.questions[k + 1].name /\ IsAscii(name) /\ cells = <<m.questions[k + 1].type>>

(* A question is written.                                                  *)
LEMMA QuestionLaid ==
    ASSUME NEW v, NEW N, NEW m, NEW k, NEW s, NEW name, NEW cells, BeforeQuestion(v, N, m, k, s, name, cells),
           NEW y, NEW M, Added(v, y, N, M, name, cells)
    PROVE  \E t : Laid(y, M, m, k + 1, t) /\ t[(k + 1) + 1] = Len(y.buf)
<1> DEFINE q == m.questions[k + 1]
<1>b. /\ v \in Writer /\ m \in Message /\ k \in Nat /\ k < Len(m.questions)
      /\ Laid(v, N, m, k, s) /\ s[k + 1] = Len(v.buf) /\ q \in Question /\ name = q.name /\ cells = <<q.type>>
  BY DEF BeforeQuestion
<1>a. k + 1 <= Len(m.questions) /\ QuestionAt(y.buf, M, q, s[k + 1], Len(y.buf))
        => PartAt(y.buf, M, m, k + 1, s[k + 1], Len(y.buf))
  BY DEF PartAt
<1> HIDE DEF q
<1> DEFINE b == Len(y.buf)
           a == Len(v.buf)
<1>0. q.name \in Seq(Nat) /\ q.type \in Nat /\ <<q.type>> \in Seq(Nat) /\ Len(<<q.type>>) = 1 /\ <<q.type>>[1] = q.type
  BY <1>b, TextTypes DEF Question, Text, Cell
<1>q. Len(m.questions) \in Nat /\ Len(m.records) \in Nat
  BY <1>b, LenProperties DEF Message
<1>2. PICK e \in Nat :
        /\ N \subseteq M /\ Found(y.buf, y.compression, M) /\ y \in Writer /\ Begins(v.buf, y.buf)
        /\ NamedAt(y.buf, M, a, q.name, e)
        /\ b = e + 1 /\ \A i \in 1 .. 1 : y.buf[e + i] = <<q.type>>[i]
  BY <1>0, <1>b DEF Added
<1>3. y.buf[e + 1] = q.type
  <2>1. 1 \in 1 .. 1
    OBVIOUS
  <2> QED  BY <1>0, <1>2, <2>1
<1>4. k <= Len(m.questions) + Len(m.records) /\ k + 1 <= Len(m.questions)
  <2>1. \A f, g, h \in Nat : f < g => f <= g + h /\ f + 1 <= g
    OBVIOUS
  <2> QED  BY <1>b, <1>q, <2>1
<1>5. Laid(y, M, m, k, s)
  BY <1>b, <1>2, <1>4, LaidGrows
<1>6. b <= b
  BY <1>2
<1>7. QuestionAt(y.buf, M, q, a, b)
  BY <1>2, <1>3, <1>6 DEF QuestionAt
<1>8. PartAt(y.buf, M, m, k + 1, s[k + 1], b)
  BY <1>a, <1>b, <1>4, <1>7
<1>9. Laid(y, M, m, k + 1, Append(s, b)) /\ Append(s, b)[(k + 1) + 1] = b
  <2>1. y \in Writer /\ Laid(y, M, m, k, s) /\ PartAt(y.buf, M, m, k + 1, s[k + 1], Len(y.buf))
    BY <1>2, <1>5, <1>8
  <2>2. Laid(y, M, m, k + 1, Append(s, Len(y.buf))) /\ Append(s, Len(y.buf))[(k + 1) + 1] = Len(y.buf)
    BY <1>b, <2>1, PartAdded, Zenon
  <2> QED  BY <2>2
<1> QED  BY <1>9

(* A question is the next part.                                            *)
LEMMA QuestionWritten ==
    ASSUME NEW v, NEW N, NEW m, NEW k, NEW s, NEW name, NEW cells, BeforeQuestion(v, N, m, k, s, name, cells),
           NEW y, y = Put(WriteName(v, name), cells), y.ok
    PROVE  \E M, u : Laid(y, M, m, k + 1, u) /\ u[(k + 1) + 1] = Len(y.buf)
<1>1. v \in Writer /\ name \in Seq(Nat) /\ IsAscii(name) /\ cells \in Seq(Nat) /\ Found(v.buf, v.compression, N)
  BY TextTypes DEF BeforeQuestion, Laid, Question, Text, Cell
<1>2. PICK M : Added(v, y, N, M, name, cells)
  BY <1>1, NamePut
<1>3. \E u : Laid(y, M, m, k + 1, u) /\ u[(k + 1) + 1] = Len(y.buf)
  BY <1>2, QuestionLaid
<1> QED  BY <1>3

(* What is known before the name of a record is written.                   *)
BeforeHead(v, N, m, k, s, r, name, cells) ==
    /\ v \in Writer /\ m \in Message /\ k \in Nat /\ k <= Len(m.questions) + Len(m.records)
    /\ Laid(v, N, m, k, s) /\ r \in Record /\ name = r.name /\ IsAscii(name) /\ cells = <<r.type, 0>>

(* The head of a record is written: its length will come before its data.  *)
LEMMA HeadLaid ==
    ASSUME NEW v, NEW N, NEW m, NEW k, NEW s, NEW r, NEW name, NEW cells, BeforeHead(v, N, m, k, s, r, name, cells),
           NEW y, y = Put(WriteName(v, name), cells), y.ok
    PROVE  \E M : /\ y \in Writer /\ Laid(y, M, m, k, s) /\ HeadAt(y.buf, M, r, Len(v.buf), Len(y.buf))
                  /\ Avoids(M, Len(y.buf)) /\ Len(v.buf) <= Len(y.buf)
<1>b. /\ v \in Writer /\ m \in Message /\ k \in Nat /\ k <= Len(m.questions) + Len(m.records)
      /\ Laid(v, N, m, k, s) /\ r \in Record /\ name = r.name /\ IsAscii(name) /\ cells = <<r.type, 0>>
  BY DEF BeforeHead
<1>0. name \in Seq(Nat) /\ cells \in Seq(Nat) /\ Len(cells) = 2 /\ cells[1] = r.type
  BY <1>b DEF Record, Text, Cell
<1>1. PICK M : Added(v, y, N, M, name, cells)
  BY <1>b, <1>0, NamePut DEF Laid
<1> DEFINE d == Len(y.buf)
           a == Len(v.buf)
<1>a. a \in Nat
  BY <1>b, LenProperties DEF Writer, Text, Cell
<1>2. PICK e \in Nat :
        /\ N \subseteq M /\ Found(y.buf, y.compression, M) /\ y \in Writer /\ Begins(v.buf, y.buf) /\ a < e
        /\ NamedAt(y.buf, M, a, name, e)
        /\ d = e + 2 /\ \A i \in 1 .. 2 : y.buf[e + i] = cells[i]
        /\ \A n \in M : n.end <= e
  BY <1>0, <1>1 DEF Added
<1>3. y.buf[e + 1] = r.type
  <2>1. 1 \in 1 .. 2
    OBVIOUS
  <2> QED  BY <1>0, <1>2, <2>1
<1>5. Laid(y, M, m, k, s)
  BY <1>b, <1>2, LaidGrows
<1>6. d <= d /\ a <= d
  BY <1>2, <1>a
<1>7. HeadAt(y.buf, M, r, a, d)
  BY <1>b, <1>2, <1>3, <1>6 DEF HeadAt
<1>8. Avoids(M, d)
  <2>1. \A n \in M : n.end \in Nat
    BY <1>2, EntryTypes DEF Found, NamesOK
  <2>2. \A f \in Nat : f <= e => f < d
    BY <1>2
  <2> QED  BY <1>2, <2>1, <2>2 DEF Avoids
<1> QED  BY <1>2, <1>5, <1>6, <1>7, <1>8

(* A field of a record's data is written.                                  *)
ItemDone(v, y, N, M, item, p) ==
    /\ N \subseteq M /\ Found(y.buf, y.compression, M) /\ y \in Writer /\ Begins(v.buf, y.buf)
    /\ ItemAt(y.buf, M, item, Len(v.buf), Len(y.buf)) /\ Avoids(M, p)

(* A field of the data is added at the end, and no name is laid over the   *)
(* length.                                                                 *)
LEMMA ItemLaid ==
    ASSUME NEW v \in Writer, NEW N, Found(v.buf, v.compression, N), NEW p \in Nat, p <= Len(v.buf), Avoids(N, p),
           NEW item \in Item, item.op = "name" => IsAscii(item.value), WriteItem(v, item).ok
    PROVE  \E M : ItemDone(v, WriteItem(v, item), N, M, item, p)
<1> DEFINE value == item.value
           y == WriteItem(v, item)
           a == Len(v.buf)
           b == Len(y.buf)
<1>0. value \in Seq(Nat) /\ Len(value) \in Nat /\ v.buf \in Seq(Nat) /\ a \in Nat
  BY LenProperties DEF Item, Text, Cell, Writer
<1>k. y \in Writer /\ Begins(v.buf, y.buf)
  BY WriteItemKeeps DEF Kept
<1>b. y.buf \in Seq(Nat) /\ b \in Nat /\ a <= b /\ b <= b
  <2> HIDE DEF y
  <2> QED  BY <1>0, <1>k, LenProperties DEF Writer, Text, Cell, Begins
<1>1. CASE item.op = "name"
  <2>1. y = WriteName(v, value)
    BY <1>1 DEF WriteItem
  <2>2. PICK M : NameDone(v, y, N, M, value)
    BY <1>0, <1>1, <2>1, NameWritten
  <2> HIDE DEF y
  <2>3. N \subseteq M /\ Found(y.buf, y.compression, M) /\ NamedAt(y.buf, M, a, value, b) /\ \A n \in M : n \in N \/ n.at >= a
    BY <2>2 DEF NameDone
  <2>4. ItemAt(y.buf, M, item, a, b)
    BY <1>1, <1>b, <2>3 DEF ItemAt
  <2>5. Avoids(M, p)
    <3> SUFFICES ASSUME NEW n \in M  PROVE n.end < p \/ n.at >= p
      BY DEF Avoids
    <3>1. n.at \in Nat
      BY <2>3, EntryTypes DEF Found, NamesOK
    <3>2. n.at >= a => n.at >= p
      BY <1>0, <3>1
    <3> QED  BY <2>3, <3>2 DEF Avoids
  <2>6. ItemDone(v, y, N, M, item, p)
    BY <1>k, <2>3, <2>4, <2>5 DEF ItemDone
  <2> QED  BY <2>6 DEF y
<1>2. CASE item.op = "counted"
  <2> DEFINE more == <<Len(value)>> \o value
             ok == Len(value) <= MaxString
             z == Put(v, more)
  <2>1. y = [z EXCEPT !.ok = ok]
    BY <1>2 DEF WriteItem
  <2>2. <<Len(value)>> \in Seq(Nat) /\ Len(<<Len(value)>>) = 1 /\ <<Len(value)>>[1] = Len(value)
    BY <1>0, TextTypes
  <2> DEFINE one == <<Len(value)>>
  <2>m. more \in Seq(Nat)
    BY <1>0, <2>2, TextTypes
  <2>3. Len(more) = 1 + Len(value) /\ \A i \in 1 .. 1 + Len(value) : more[i] = IF i <= 1 THEN one[i] ELSE value[i - 1]
    <3> HIDE DEF value
    <3>1. one \in Seq(Nat) /\ Len(one) = 1
      BY <2>2
    <3> HIDE DEF one
    <3>2. more = one \o value
      BY DEF one
    <3> HIDE DEF more
    <3>3. Len(more) = Len(one) + Len(value)
          /\ \A i \in 1 .. Len(one) + Len(value) : more[i] = IF i <= Len(one) THEN one[i] ELSE value[i - Len(one)]
      BY <1>0, <3>1, <3>2, TextConcat, ZenonT(60)
    <3> QED  BY <3>1, <3>3
  <2>l. Len(more) = 1 + Len(value)
    BY <2>3
  <2> HIDE DEF more
  <2>4. z \in Writer /\ z.buf = v.buf \o more /\ z.compression = v.compression
    BY <2>m, PutIs
  <2> HIDE DEF z, ok
  <2>5. y.buf = v.buf \o more /\ y.compression = v.compression
    BY <2>1, <2>4 DEF Writer
  <2> HIDE DEF y
  <2>6. b = a + Len(more) /\ \A i \in 1 .. a + Len(more) : y.buf[i] = IF i <= a THEN v.buf[i] ELSE more[i - a]
    BY <1>0, <2>m, <2>5, TextConcat
  <2>7. b = (a + 1) + Len(value)
    <3>1. \A f, g \in Nat : f + (1 + g) = (f + 1) + g
      OBVIOUS
    <3> QED  BY <1>0, <2>l, <2>6, <3>1
  <2>8. y.buf[a + 1] = Len(value)
    <3>1. a + 1 \in 1 .. a + Len(more) /\ ~(a + 1 <= a) /\ (a + 1) - a = 1 /\ 1 \in 1 .. 1 + Len(value)
      <4>1. \A f, g \in Nat : f + 1 \in 1 .. f + (1 + g) /\ ~(f + 1 <= f) /\ (f + 1) - f = 1 /\ 1 \in 1 .. 1 + g
        OBVIOUS
      <4> QED  BY <1>0, <2>l, <4>1
    <3>2. more[1] = Len(value)
      BY <2>2, <2>3, <3>1
    <3> QED  BY <2>6, <3>1, <3>2
  <2>9. CellsAt(y.buf, a + 1, value)
    <3> SUFFICES ASSUME NEW i \in 1 .. Len(value)  PROVE y.buf[(a + 1) + i] = value[i]
      BY DEF CellsAt
    <3>1. /\ (a + 1) + i \in 1 .. a + Len(more) /\ ~((a + 1) + i <= a) /\ ((a + 1) + i) - a = 1 + i
          /\ 1 + i \in 1 .. 1 + Len(value) /\ ~(1 + i <= 1) /\ (1 + i) - 1 = i
      <4>1. \A f, g \in Nat : \A j \in 1 .. g :
               /\ (f + 1) + j \in 1 .. f + (1 + g) /\ ~((f + 1) + j <= f) /\ ((f + 1) + j) - f = 1 + j
               /\ 1 + j \in 1 .. 1 + g /\ ~(1 + j <= 1) /\ (1 + j) - 1 = j
        OBVIOUS
      <4> QED  BY <1>0, <2>l, <4>1
    <3>2. more[1 + i] = value[i]
      BY <2>3, <3>1
    <3> QED  BY <2>6, <3>1, <3>2
  <2>10. ItemAt(y.buf, N, item, a, b)
    <3>1. a <= b /\ b <= Len(y.buf) /\ item.op = "counted" /\ b = (a + 1) + Len(item.value)
          /\ y.buf[a + 1] = Len(item.value) /\ CellsAt(y.buf, a + 1, item.value)
      BY <1>2, <1>b, <2>7, <2>8, <2>9
    <3> HIDE DEF a, b
    <3> QED  BY <3>1 DEF ItemAt
  <2>11. Found(y.buf, y.compression, N)
    BY <1>0, <1>b, <1>k, <2>5, FoundGrows
  <2>12. ItemDone(v, y, N, N, item, p)
    BY <1>k, <2>10, <2>11 DEF ItemDone
  <2> QED  BY <2>12 DEF y
<1>3. CASE item.op \notin {"name", "counted"}
  <2>1. y = Put(v, value)
    BY <1>3 DEF WriteItem
  <2> HIDE DEF value
  <2>2. y.buf = v.buf \o value /\ y.compression = v.compression
    BY <1>0, <2>1, PutIs
  <2> HIDE DEF y
  <2>3. b = a + Len(value) /\ \A i \in 1 .. a + Len(value) : y.buf[i] = IF i <= a THEN v.buf[i] ELSE value[i - a]
    BY <1>0, <2>2, TextConcat
  <2>4. CellsAt(y.buf, a, value)
    <3> SUFFICES ASSUME NEW i \in 1 .. Len(value)  PROVE y.buf[a + i] = value[i]
      BY DEF CellsAt
    <3>1. a + i \in 1 .. a + Len(value) /\ ~(a + i <= a) /\ (a + i) - a = i
      BY <1>0
    <3> QED  BY <2>3, <3>1
  <2>5. ItemAt(y.buf, N, item, a, b)
    <3>1. a <= b /\ b <= Len(y.buf) /\ item.op \notin {"name", "counted"} /\ b = a + Len(item.value)
          /\ CellsAt(y.buf, a, item.value)
      BY <1>3, <1>b, <2>3, <2>4 DEF value
    <3> HIDE DEF a, b
    <3> QED  BY <3>1 DEF ItemAt
  <2>6. Found(y.buf, y.compression, N)
    BY <1>0, <1>b, <1>k, <2>2, FoundGrows
  <2>7. ItemDone(v, y, N, N, item, p)
    BY <1>k, <2>5, <2>6 DEF ItemDone
  <2> QED  BY <2>7 DEF y
<1> QED  BY <1>1, <1>2, <1>3

-------------------------------------------------------------------------------

(* rest is what is left of all.                                            *)
Left(all, rest) ==
    Len(rest) <= Len(all) /\ \A i \in 1 .. Len(rest) : rest[i] = all[(Len(all) - Len(rest)) + i]

(* At first all is left.                                                   *)
LEMMA LeftAll == ASSUME NEW T, NEW all \in Seq(T)  PROVE Left(all, all)
<1>1. Len(all) \in Nat
  BY LenProperties
<1>2. \A i \in 1 .. Len(all) : (Len(all) - Len(all)) + i = i
  BY <1>1
<1> QED  BY <1>1, <1>2 DEF Left

(* Without its first, what was left is what is left.                       *)
LEMMA LeftNext ==
    ASSUME NEW T, NEW all \in Seq(T), NEW rest \in Seq(T), Left(all, rest), rest # <<>>
    PROVE  /\ Left(all, Tail(rest)) /\ Len(Tail(rest)) \in Nat /\ Len(rest) = Len(Tail(rest)) + 1
           /\ Head(rest) = all[Len(all) - Len(Tail(rest))] /\ Len(Tail(rest)) < Len(all)
<1> DEFINE n == Len(all)
           m == Len(rest)
           t == Tail(rest)
<1>1. /\ n \in Nat /\ m \in Nat /\ m # 0 /\ m <= n
      /\ \A i \in 1 .. m : rest[i] = all[(n - m) + i]
  BY LenProperties, EmptySeq DEF Left
<1>2. /\ Len(t) = m - 1 /\ \A i \in 1 .. m - 1 : t[i] = rest[i + 1]
      /\ Head(rest) = rest[1]
  BY HeadTailProperties
<1> HIDE DEF n, m, t
<1>3. Len(t) \in Nat /\ m = Len(t) + 1 /\ Len(t) <= n /\ Len(t) < n
  BY <1>1, <1>2
<1>4. ASSUME NEW i \in 1 .. Len(t)  PROVE t[i] = all[(n - Len(t)) + i]
  <2>1. i \in 1 .. m - 1 /\ i + 1 \in 1 .. m /\ (n - m) + (i + 1) = (n - Len(t)) + i
    BY <1>1, <1>3
  <2> QED  BY <1>1, <1>2, <2>1
<1>5. Head(rest) = all[n - Len(t)]
  <2>1. 1 \in 1 .. m /\ (n - m) + 1 = n - Len(t)
    BY <1>1, <1>3
  <2> QED  BY <1>1, <1>2, <2>1
<1> QED  BY <1>3, <1>4, <1>5 DEF Left, n, m, t

(* Between two parts, and within the data of a record.                     *)
AtPart(N, s, k) ==
    LET nq == Len(sent.questions)
        nr == Len(sent.records)
    IN  /\ k \in Nat /\ k <= nq + nr /\ Laid(w, N, sent, k, s) /\ s[k + 1] = Len(w.buf)
        /\ epc = "question" =>
              todo.records = sent.records /\ Left(sent.questions, todo.questions) /\ k + Len(todo.questions) = nq
        /\ epc = "record" => Left(sent.records, todo.records) /\ k + Len(todo.records) = nq + nr
        /\ epc = "encoded" => k = nq + nr /\ Len(w.buf) <= MaxPacketLen

(* The record whose data is being written.                                 *)
RecordAtHand == sent.records[Len(sent.records) - Len(todo.records)]

(* Within the data of a record: its head and the first j fields are laid   *)
(* out after the parts before it.                                          *)
InData(N, s, k, x, j) ==
    LET nq == Len(sent.questions)
        nr == Len(sent.records)
        r == RecordAtHand
    IN  /\ k \in Nat /\ k <= nq + nr /\ Laid(w, N, sent, k, s)
        /\ Left(sent.records, todo.records) /\ Len(todo.records) < nr /\ (k + 1) + Len(todo.records) = nq + nr
        /\ HeadAt(w.buf, N, r, s[k + 1], lenPos) /\ s[k + 1] <= lenPos /\ Avoids(N, lenPos)
        /\ j \in Nat /\ ItemsAt(w.buf, N, Items(r), j, x) /\ x[1] = lenPos /\ x[j + 1] = Len(w.buf)
        /\ Left(Items(r), todo.items) /\ j + Len(todo.items) = Len(Items(r))

(* What was encoded lies in the buffer part by part.                       *)
LayInv ==
    /\ epc \in {"question", "record", "encoded"} => \E N, s, k : AtPart(N, s, k)
    /\ epc = "field" => \E N, s, k, x, j : InData(N, s, k, x, j)

(* The types of what the encoder keeps.                                    *)
LEMMA EncoderTypes ==
    ASSUME WriteInv
    PROVE  /\ sent \in Message /\ sent.questions \in Seq(Question) /\ sent.records \in Seq(Record)
           /\ Len(sent.questions) \in Nat /\ Len(sent.records) \in Nat
           /\ todo.questions \in Seq(Question) /\ todo.records \in Seq(Record) /\ todo.items \in Seq(Item)
           /\ Len(todo.questions) \in Nat /\ Len(todo.records) \in Nat /\ Len(todo.items) \in Nat
           /\ w \in Writer /\ w.buf \in Seq(Nat) /\ Len(w.buf) \in Nat
           /\ \A i \in 1 .. Len(sent.records) : sent.records[i] \in Record
           /\ \A i \in 1 .. Len(sent.questions) : sent.questions[i] \in Question
<1>1. sent.questions \in Seq(Question) /\ sent.records \in Seq(Record)
  BY DEF WriteInv, Message, Question, Record
<1>2. todo.questions \in Seq(Question) /\ todo.records \in Seq(Record) /\ todo.items \in Seq(Item)
  BY DEF WriteInv
<1>3. w.buf \in Seq(Nat)
  BY DEF WriteInv, Writer, Text, Cell
<1> QED  BY <1>1, <1>2, <1>3, LenProperties, ElementOfSeq DEF WriteInv

(* EncodeQuestion lays out a question.                                     *)
LEMMA QuestionStep ==
    ASSUME WriteInv, LayInv, AsciiNames(sent), EncodeQuestion
    PROVE  LayInv'
<1> DEFINE q == Head(todo.questions)
           y == Put(WriteName(w, q.name), <<q.type>>)
           nq == Len(sent.questions)
           t == Tail(todo.questions)
<1>1. /\ epc = "question" /\ todo.questions # <<>> /\ w' = y /\ epc' = (IF y.ok THEN "question" ELSE "unencodable")
      /\ UNCHANGED sent /\ todo' = [todo EXCEPT !.questions = t]
  BY DEF EncodeQuestion, Write
<1>2. PICK N, s, k : AtPart(N, s, k)
  BY <1>1 DEF LayInv
<1>3. /\ k \in Nat /\ Laid(w, N, sent, k, s) /\ s[k + 1] = Len(w.buf) /\ todo.records = sent.records
      /\ Left(sent.questions, todo.questions) /\ k + Len(todo.questions) = nq
  BY <1>1, <1>2 DEF AtPart
<1>4. /\ Left(sent.questions, t) /\ Len(t) \in Nat /\ Len(todo.questions) = Len(t) + 1
      /\ q = sent.questions[nq - Len(t)] /\ Len(t) < nq
  BY <1>1, <1>3, EncoderTypes, LeftNext
<1> SUFFICES ASSUME y.ok  PROVE \E M, u : AtPart(M, u, k + 1)'
  BY <1>1 DEF LayInv
<1>n. nq \in Nat /\ Len(sent.records) \in Nat /\ w \in Writer /\ sent \in Message
  BY EncoderTypes
<1>5. nq - Len(t) = k + 1 /\ k < nq /\ k + 1 \in Nat /\ k + 1 <= nq + Len(sent.records) /\ (k + 1) + Len(t) = nq /\ k + 1 \in 1 .. nq
  <2>1. \A a, b, c, d \in Nat : a + (b + 1) = c =>
          c - b = a + 1 /\ a < c /\ a + 1 \in Nat /\ a + 1 <= c + d /\ (a + 1) + b = c /\ a + 1 \in 1 .. c
    OBVIOUS
  <2>2. k + (Len(t) + 1) = nq /\ k \in Nat /\ Len(t) \in Nat
    BY <1>3, <1>4
  <2> HIDE DEF t, nq
  <2> QED  BY <1>n, <2>1, <2>2
<1>6. q \in Question /\ q = sent.questions[k + 1]
  BY <1>4, <1>5, EncoderTypes
<1>a. IsAscii(q.name)
  <2>1. k + 1 \in DOMAIN sent.questions
    BY <1>5, EncoderTypes, LenProperties
  <2> QED  BY <1>6, <2>1 DEF AsciiNames
<1>7. PICK M, u : Laid(y, M, sent, k + 1, u) /\ u[(k + 1) + 1] = Len(y.buf)
  <2>1. BeforeQuestion(w, N, sent, k, s, q.name, <<q.type>>)
    BY <1>3, <1>5, <1>6, <1>a, <1>n DEF BeforeQuestion
  <2>2. y = Put(WriteName(w, q.name), <<q.type>>) /\ y.ok
    OBVIOUS
  <2> HIDE DEF q, y, t
  <2> QED  BY <2>1, <2>2, QuestionWritten
<1> HIDE DEF y, q, t
<1>8. todo'.questions = t /\ todo'.records = todo.records
  BY <1>1 DEF WriteInv
<1>9. AtPart(M, u, k + 1)'
  BY <1>1, <1>3, <1>4, <1>5, <1>7, <1>8 DEF AtPart
<1> QED  BY <1>9

(* After the questions come the records.                                   *)
LEMMA QuestionsEnd ==
    ASSUME WriteInv, LayInv, EndQuestions
    PROVE  LayInv'
<1>1. /\ epc = "question" /\ todo.questions = <<>> /\ w' = w /\ epc' \in {"record", "unencodable"}
      /\ UNCHANGED <<sent, todo>>
  BY DEF EndQuestions, Write
<1>2. PICK N, s, k : AtPart(N, s, k)
  BY <1>1 DEF LayInv
<1>3. /\ k \in Nat /\ k <= Len(sent.questions) + Len(sent.records) /\ Laid(w, N, sent, k, s) /\ s[k + 1] = Len(w.buf)
      /\ todo.records = sent.records /\ k + Len(todo.questions) = Len(sent.questions)
  BY <1>1, <1>2 DEF AtPart
<1>4. Left(sent.records, todo.records)
  BY <1>3, EncoderTypes, LeftAll
<1>5. k + Len(todo.records) = Len(sent.questions) + Len(sent.records)
  <2>1. Len(<<>>) = 0
    BY TextTypes
  <2>2. k + 0 = Len(sent.questions) /\ todo.records = sent.records
    BY <1>1, <1>3, <2>1
  <2>3. k = Len(sent.questions)
    BY <1>3, <2>2
  <2> QED  BY <2>2, <2>3
<1>6. epc' = "record" => AtPart(N, s, k)'
  BY <1>1, <1>3, <1>4, <1>5 DEF AtPart
<1> QED  BY <1>1, <1>6 DEF LayInv

-------------------------------------------------------------------------------

(* EncodeResourceRecord lays out the name and the type, and a zero for the *)
(* length.                                                                 *)
LEMMA HeadStep ==
    ASSUME WriteInv, LayInv, AsciiNames(sent), EncodeResourceRecord
    PROVE  LayInv'
<1> DEFINE r == Head(todo.records)
           y == Put(WriteName(w, r.name), <<r.type, 0>>)
           nq == Len(sent.questions)
           nr == Len(sent.records)
           t == Tail(todo.records)
<1>1. /\ epc = "record" /\ todo.records # <<>> /\ w' = y /\ epc' = (IF y.ok THEN "field" ELSE "unencodable")
      /\ UNCHANGED sent /\ todo' = [todo EXCEPT !.records = t, !.items = Items(r)] /\ lenPos' = Len(w'.buf)
  BY DEF EncodeResourceRecord, Write, Items
<1>2. PICK N, s, k : AtPart(N, s, k)
  BY <1>1 DEF LayInv
<1>3. /\ k \in Nat /\ k <= nq + nr /\ Laid(w, N, sent, k, s) /\ s[k + 1] = Len(w.buf)
      /\ Left(sent.records, todo.records) /\ k + Len(todo.records) = nq + nr
  BY <1>1, <1>2 DEF AtPart
<1>4. /\ Left(sent.records, t) /\ Len(t) \in Nat /\ Len(todo.records) = Len(t) + 1
      /\ r = sent.records[nr - Len(t)] /\ Len(t) < nr
  BY <1>1, <1>3, EncoderTypes, LeftNext
<1> SUFFICES ASSUME y.ok  PROVE \E M, x, j : InData(M, s, k, x, j)'
  BY <1>1 DEF LayInv
<1>n. nq \in Nat /\ nr \in Nat /\ w \in Writer /\ sent \in Message
  BY EncoderTypes
<1>5. nr - Len(t) \in 1 .. nr /\ (k + 1) + Len(t) = nq + nr
  <2>1. \A a, b, c, d \in Nat : b < d /\ a + (b + 1) = c + d => d - b \in 1 .. d /\ (a + 1) + b = c + d
    OBVIOUS
  <2>2. k + (Len(t) + 1) = nq + nr /\ k \in Nat /\ Len(t) \in Nat /\ Len(t) < nr
    BY <1>3, <1>4
  <2> HIDE DEF t, nq, nr
  <2> QED  BY <1>n, <2>1, <2>2
<1>6. r \in Record
  BY <1>4, <1>5, EncoderTypes
<1>a. IsAscii(r.name)
  <2>1. nr - Len(t) \in DOMAIN sent.records
    BY <1>5, EncoderTypes, LenProperties
  <2> QED  BY <1>4, <2>1 DEF AsciiNames
<1>7. PICK M : /\ y \in Writer /\ Laid(y, M, sent, k, s) /\ HeadAt(y.buf, M, r, Len(w.buf), Len(y.buf))
               /\ Avoids(M, Len(y.buf)) /\ Len(w.buf) <= Len(y.buf)
  <2>1. BeforeHead(w, N, sent, k, s, r, r.name, <<r.type, 0>>)
    BY <1>3, <1>6, <1>a, <1>n DEF BeforeHead
  <2>2. y = Put(WriteName(w, r.name), <<r.type, 0>>) /\ y.ok
    OBVIOUS
  <2> HIDE DEF r, y, t, nq, nr
  <2> QED  BY <2>1, <2>2, HeadLaid
<1> HIDE DEF y, r, t
<1>8. todo'.records = t /\ todo'.items = Items(r) /\ lenPos' = Len(y.buf)
  BY <1>1 DEF WriteInv
<1>9. RecordAtHand' = r
  BY <1>1, <1>4, <1>8 DEF RecordAtHand
<1>10. Items(r) \in Seq(Item) /\ Len(Items(r)) \in Nat
  BY <1>6, ItemsTypes
<1>11. Left(Items(r), Items(r)) /\ 0 + Len(Items(r)) = Len(Items(r))
  BY <1>10, LeftAll
<1>b. PICK b : b = Len(y.buf)
  OBVIOUS
<1>x. PICK x : x = <<b>>
  OBVIOUS
<1>12. b \in Nat
  BY <1>7, <1>b, LenProperties DEF Writer, Text, Cell
<1>13. ItemsAt(y.buf, M, Items(r), 0, x) /\ x[1] = b /\ x[0 + 1] = b
  <2>1. x \in Seq(Nat) /\ Len(x) = 1 /\ x[1] = b
    BY <1>12, <1>x, TextTypes
  <2>2. Rising(x)
    <3>1. \A i, j \in 1 .. 1 : i = 1 /\ j = 1
      OBVIOUS
    <3>2. x[1] <= x[1]
      BY <1>12, <2>1
    <3> QED  BY <2>1, <3>1, <3>2 DEF Rising
  <2>3. Len(x) = 0 + 1 /\ 1 .. 0 = {} /\ x[0 + 1] = b
    BY <2>1
  <2> QED  BY <2>1, <2>2, <2>3 DEF ItemsAt
<1>14. InData(M, s, k, x, 0)'
  <2>1. w' = y /\ UNCHANGED sent /\ 0 \in Nat
    BY <1>1
  <2>2. HeadAt(y.buf, M, r, s[k + 1], b) /\ s[k + 1] <= b /\ Avoids(M, b) /\ lenPos' = b
    BY <1>3, <1>7, <1>8, <1>b
  <2>3. /\ k \in Nat /\ k <= nq + nr /\ Laid(y, M, sent, k, s)
        /\ Left(sent.records, t) /\ Len(t) < nr /\ (k + 1) + Len(t) = nq + nr
    BY <1>3, <1>4, <1>5, <1>7
  <2>4. Len(w'.buf) = b
    BY <1>b, <2>1
  <2>5. /\ Laid(w', M, sent', k, s) /\ Left(sent'.records, todo'.records) /\ Len(todo'.records) < Len(sent'.records)
        /\ (k + 1) + Len(todo'.records) = Len(sent'.questions) + Len(sent'.records)
        /\ k <= Len(sent'.questions) + Len(sent'.records)
    BY <1>8, <2>1, <2>3
  <2>6. HeadAt(w'.buf, M, RecordAtHand', s[k + 1], lenPos') /\ s[k + 1] <= lenPos' /\ Avoids(M, lenPos')
    BY <1>9, <2>1, <2>2
  <2>7. /\ ItemsAt(w'.buf, M, Items(RecordAtHand'), 0, x) /\ x[1] = lenPos' /\ x[0 + 1] = Len(w'.buf)
        /\ Left(Items(RecordAtHand'), todo'.items) /\ 0 + Len(todo'.items) = Len(Items(RecordAtHand'))
    BY <1>8, <1>9, <1>11, <1>13, <2>1, <2>2, <2>4
  <2> HIDE DEF nq, nr
  <2> QED  BY <2>1, <2>3, <2>5, <2>6, <2>7 DEF InData
<1> QED  BY <1>14

-------------------------------------------------------------------------------

(* A field is added to those laid out.                                     *)
BeforeItem(v, y, N, M, items, j, x, p) ==
    /\ j \in Nat /\ ItemsAt(v.buf, N, items, j, x) /\ x[j + 1] = Len(v.buf) /\ v \in Writer
    /\ \A i \in 1 .. j + 1 : items[i] \in Item
    /\ ItemDone(v, y, N, M, items[j + 1], p)

(* One more field.                                                         *)
LEMMA FieldAdded ==
    ASSUME NEW v, NEW y, NEW N, NEW M, NEW items, NEW j, NEW x, NEW p, BeforeItem(v, y, N, M, items, j, x, p)
    PROVE  /\ ItemsAt(y.buf, M, items, j + 1, Append(x, Len(y.buf)))
           /\ Append(x, Len(y.buf))[1] = x[1] /\ Append(x, Len(y.buf))[Len(Append(x, Len(y.buf)))] = Len(y.buf)
<1> DEFINE b == Len(y.buf)
           z == Append(x, b)
<1>h. /\ j \in Nat /\ ItemsAt(v.buf, N, items, j, x) /\ x[j + 1] = Len(v.buf) /\ v \in Writer
      /\ \A i \in 1 .. j + 1 : items[i] \in Item
      /\ ItemDone(v, y, N, M, items[j + 1], p)
  BY DEF BeforeItem
<1>0. /\ N \subseteq M /\ y \in Writer /\ Begins(v.buf, y.buf) /\ ItemAt(y.buf, M, items[j + 1], Len(v.buf), b)
  BY <1>h DEF ItemDone
<1>1. v.buf \in Seq(Nat) /\ y.buf \in Seq(Nat) /\ b \in Nat /\ Len(v.buf) \in Nat
  BY <1>h, <1>0, LenProperties DEF Writer, Text, Cell
<1>2. Len(v.buf) <= b /\ \A i \in 1 .. Len(v.buf) : v.buf[i] = y.buf[i]
  BY <1>0 DEF Begins
<1>3. Rising(x) /\ Len(x) = j + 1
  BY <1>h DEF ItemsAt
<1>4. x[1] \in Nat /\ x[j + 1] \in Nat
  BY <1>h, <1>3, RisingIs
<1>5. Grows(v.buf, y.buf, N, M, x[1], x[j + 1])
  <2>1. \A i \in x[1] + 1 .. x[j + 1] : i \in 1 .. Len(v.buf)
    BY <1>h, <1>1, <1>4
  <2> QED  BY <1>0, <1>1, <1>2, <1>4, <2>1 DEF Grows, SameCells
<1>6. ItemsAt(y.buf, M, items, j, x)
  <2>1. \A i \in 1 .. j : items[i] \in Item
    BY <1>h
  <2> QED  BY <1>h, <1>5, <2>1, ItemsKept
<1>7. Rising(z) /\ Len(z) = (j + 1) + 1 /\ z[(j + 1) + 1] = b /\ \A i \in 1 .. j + 1 : z[i] = x[i]
  <2> HIDE DEF b
  <2> QED  BY <1>h, <1>1, <1>2, <1>3, RisingMore
<1> HIDE DEF b, z
<1>8. ASSUME NEW i \in 1 .. j + 1  PROVE ItemAt(y.buf, M, items[i], z[i], z[i + 1])
  <2>1. CASE i \in 1 .. j
    <3>1. i \in 1 .. j + 1 /\ i + 1 \in 1 .. j + 1
      BY <1>h, <2>1
    <3>2. z[i] = x[i] /\ z[i + 1] = x[i + 1]
      BY <1>7, <3>1
    <3> QED  BY <1>6, <2>1, <3>2 DEF ItemsAt
  <2>2. CASE i = j + 1
    <3>1. z[i] = Len(v.buf) /\ z[i + 1] = b
      BY <1>h, <1>7, <2>2
    <3> QED  BY <1>0, <2>2, <3>1
  <2> QED  BY <1>h, <2>1, <2>2
<1>9. z[1] = x[1]
  <2>1. 1 \in 1 .. j + 1
    BY <1>h
  <2> QED  BY <1>7, <2>1
<1> QED  BY <1>7, <1>8, <1>9 DEF ItemsAt, b, z

(* EncodeRData lays out a field of the data.                               *)
LEMMA DataStep ==
    ASSUME WriteInv, LayInv, AsciiNames(sent), EncodeRData
    PROVE  LayInv'
<1> DEFINE i == Head(todo.items)
           y == WriteItem(w, i)
           r == RecordAtHand
           t == Tail(todo.items)
           n == Len(Items(r))
<1>1. /\ epc = "field" /\ todo.items # <<>> /\ w' = y /\ epc' = (IF y.ok THEN "field" ELSE "unencodable")
      /\ UNCHANGED <<sent, lenPos>> /\ todo' = [todo EXCEPT !.items = t]
  BY DEF EncodeRData, Write
<1>2. PICK N, s, k, x, j : InData(N, s, k, x, j)
  BY <1>1 DEF LayInv
<1>3. /\ k \in Nat /\ k <= Len(sent.questions) + Len(sent.records) /\ Laid(w, N, sent, k, s)
      /\ Left(sent.records, todo.records) /\ Len(todo.records) < Len(sent.records)
      /\ (k + 1) + Len(todo.records) = Len(sent.questions) + Len(sent.records)
      /\ HeadAt(w.buf, N, r, s[k + 1], lenPos) /\ s[k + 1] <= lenPos /\ Avoids(N, lenPos)
      /\ j \in Nat /\ ItemsAt(w.buf, N, Items(r), j, x) /\ x[1] = lenPos /\ x[j + 1] = Len(w.buf)
      /\ Left(Items(r), todo.items) /\ j + Len(todo.items) = n
  BY <1>2 DEF InData
<1>n. w \in Writer /\ sent \in Message /\ w.buf \in Seq(Nat) /\ Len(w.buf) \in Nat /\ lenPos \in 1 .. Len(w.buf)
  BY <1>1, EncoderTypes DEF WriteInv
<1>r. r \in Record /\ \A f \in DOMAIN r.data : r.data[f].op = "name" => IsAscii(r.data[f].value)
  <2>1. Len(sent.records) - Len(todo.records) \in 1 .. Len(sent.records)
    <3>1. \A a, b \in Nat : a < b => b - a \in 1 .. b
      OBVIOUS
    <3>2. Len(todo.records) \in Nat /\ Len(sent.records) \in Nat /\ Len(todo.records) < Len(sent.records)
      BY <1>3, EncoderTypes
    <3> QED  BY <3>1, <3>2
  <2>2. Len(sent.records) - Len(todo.records) \in DOMAIN sent.records
    BY <2>1, EncoderTypes, LenProperties
  <2> QED  BY <2>1, <2>2, EncoderTypes DEF RecordAtHand, AsciiNames
<1>4. Items(r) \in Seq(Item) /\ n \in Nat /\ \A l \in 1 .. n : Items(r)[l] \in Item
  BY <1>r, ItemsTypes
<1>5. /\ Left(Items(r), t) /\ Len(t) \in Nat /\ Len(todo.items) = Len(t) + 1 /\ i = Items(r)[n - Len(t)]
  BY <1>1, <1>3, <1>4, EncoderTypes, LeftNext
<1> SUFFICES ASSUME y.ok  PROVE \E M, z : InData(M, s, k, z, j + 1)'
  BY <1>1 DEF LayInv
<1>6. n - Len(t) = j + 1 /\ (j + 1) + Len(t) = n /\ j + 1 <= n
  <2>1. \A a, b, c \in Nat : a + (b + 1) = c => c - b = a + 1 /\ (a + 1) + b = c /\ a + 1 <= c
    OBVIOUS
  <2>2. j + (Len(t) + 1) = n
    BY <1>3, <1>5
  <2> HIDE DEF t, n
  <2> QED  BY <1>3, <1>4, <1>5, <2>1, <2>2
<1> HIDE DEF n, t, r
<1>7. i = Items(r)[j + 1] /\ i \in Item /\ \A l \in 1 .. j + 1 : Items(r)[l] \in Item
  <2>1. i = Items(r)[j + 1]
    BY <1>5, <1>6
  <2>2. j + 1 \in 1 .. n /\ \A l \in 1 .. j + 1 : l \in 1 .. n
    BY <1>3, <1>4, <1>6
  <2> HIDE DEF i
  <2> QED  BY <1>4, <2>1, <2>2
<1>a. i.op = "name" => IsAscii(i.value)
  <2>1. j + 1 \in DOMAIN Items(r)
    BY <1>3, <1>4, <1>6, LenProperties DEF n
  <2>2. CASE r.parsed
    <3>1. Items(r) = r.data
      BY <2>2 DEF Items
    <3> QED  BY <1>7, <1>r, <2>1, <3>1
  <2>3. CASE ~r.parsed
    <3>1. Items(r) = <<[op |-> "rest", value |-> r.raw]>>
      BY <2>3 DEF Items
    <3>2. j + 1 = 1
      BY <2>1, <3>1
    <3>3. i.op = "rest"
      BY <1>7, <3>1, <3>2
    <3> QED  BY <3>3
  <2> QED  BY <2>2, <2>3
<1>8. PICK M : ItemDone(w, y, N, M, i, lenPos)
  <2>1. lenPos \in Nat /\ lenPos <= Len(w.buf) /\ Found(w.buf, w.compression, N) /\ y.ok
    BY <1>3, <1>n DEF Laid
  <2> HIDE DEF i
  <2> QED  BY <1>3, <1>7, <1>a, <1>n, <2>1, ItemLaid
<1> HIDE DEF i, y
<1>9. /\ N \subseteq M /\ Found(y.buf, y.compression, M) /\ y \in Writer /\ Begins(w.buf, y.buf) /\ Avoids(M, lenPos)
  BY <1>8 DEF ItemDone
<1>10. Laid(y, M, sent, k, s)
  BY <1>3, <1>9, <1>n, LaidGrows
<1>b. PICK b : b = Len(y.buf)
  OBVIOUS
<1>z. PICK z : z = Append(x, b)
  OBVIOUS
<1>11. ItemsAt(y.buf, M, Items(r), j + 1, z) /\ z[1] = lenPos /\ z[(j + 1) + 1] = b
  <2>1. ItemDone(w, y, N, M, Items(r)[j + 1], lenPos)
    BY <1>7, <1>8
  <2>2. j \in Nat /\ ItemsAt(w.buf, N, Items(r), j, x) /\ x[j + 1] = Len(w.buf) /\ x[1] = lenPos
    BY <1>3
  <2>3. w \in Writer /\ \A l \in 1 .. j + 1 : Items(r)[l] \in Item
    BY <1>7, <1>n
  <2> DEFINE items == Items(r)
  <2> HIDE DEF items
  <2>4. /\ j \in Nat /\ ItemsAt(w.buf, N, items, j, x) /\ x[j + 1] = Len(w.buf) /\ w \in Writer
        /\ \A l \in 1 .. j + 1 : items[l] \in Item
        /\ ItemDone(w, y, N, M, items[j + 1], lenPos)
    BY <2>1, <2>2, <2>3 DEF items
  <2>5. /\ ItemsAt(y.buf, M, items, j + 1, Append(x, Len(y.buf)))
        /\ Append(x, Len(y.buf))[1] = x[1] /\ Append(x, Len(y.buf))[Len(Append(x, Len(y.buf)))] = Len(y.buf)
    <3>1. BeforeItem(w, y, N, M, items, j, x, lenPos)
      BY <2>4 DEF BeforeItem
    <3> QED  BY <3>1, FieldAdded
  <2>6. ItemsAt(y.buf, M, items, j + 1, z) /\ z[1] = lenPos /\ z[Len(z)] = b
    BY <1>b, <1>z, <2>2, <2>5
  <2>7. Len(z) = (j + 1) + 1
    BY <2>6 DEF ItemsAt
  <2> QED  BY <2>6, <2>7 DEF items
<1>12. HeadAt(y.buf, M, r, s[k + 1], lenPos)
  <2>1. y.buf \in Seq(Nat) /\ Len(y.buf) \in Nat
    BY <1>9, LenProperties DEF Writer, Text, Cell
  <2>2. s[k + 1] \in Nat /\ lenPos \in Nat /\ lenPos - 1 \in Nat
    BY <1>3, <1>n, RisingIs DEF Laid, PartsAt
  <2>3. \A l \in s[k + 1] + 1 .. lenPos - 1 : l \in 1 .. Len(w.buf)
    BY <1>n, <2>2
  <2>4. Grows(w.buf, y.buf, N, M, s[k + 1], lenPos - 1)
    BY <1>9, <1>n, <2>1, <2>2, <2>3 DEF Grows, SameCells, Begins
  <2> QED  BY <1>3, <2>2, <2>4, HeadKept
<1>13. todo'.records = todo.records /\ todo'.items = t
  BY <1>1 DEF WriteInv
<1>14. RecordAtHand' = r
  BY <1>1, <1>13 DEF RecordAtHand, r
<1>15. InData(M, s, k, z, j + 1)'
  <2>1. /\ Laid(w', M, sent', k, s) /\ Left(sent'.records, todo'.records) /\ Len(todo'.records) < Len(sent'.records)
        /\ (k + 1) + Len(todo'.records) = Len(sent'.questions) + Len(sent'.records)
        /\ k <= Len(sent'.questions) + Len(sent'.records) /\ k \in Nat
    BY <1>1, <1>3, <1>10, <1>13
  <2>2. HeadAt(w'.buf, M, RecordAtHand', s[k + 1], lenPos') /\ s[k + 1] <= lenPos' /\ Avoids(M, lenPos')
    BY <1>1, <1>3, <1>9, <1>12, <1>14
  <2>3. /\ ItemsAt(w'.buf, M, Items(RecordAtHand'), j + 1, z) /\ z[1] = lenPos' /\ z[(j + 1) + 1] = Len(w'.buf)
        /\ Left(Items(RecordAtHand'), todo'.items) /\ (j + 1) + Len(todo'.items) = Len(Items(RecordAtHand'))
    BY <1>1, <1>5, <1>6, <1>11, <1>13, <1>14, <1>b DEF n
  <2>4. j + 1 \in Nat
    BY <1>3
  <2> QED  BY <2>1, <2>2, <2>3, <2>4 DEF InData
<1> QED  BY <1>15

-------------------------------------------------------------------------------

(* The same but for one cell.                                              *)
Patched(buf, more, p) ==
    /\ buf \in Seq(Nat) /\ more \in Seq(Nat) /\ Len(more) = Len(buf) /\ p \in Nat
    /\ \A i \in 1 .. Len(buf) : i # p => more[i] = buf[i]

(* What does not cover the cell that is patched stays where it is.         *)
LEMMA PatchedGrows ==
    ASSUME NEW buf, NEW more, NEW p, Patched(buf, more, p), NEW N,
           NEW a \in Nat, NEW b \in Nat, b <= Len(buf), b < p \/ a >= p
    PROVE  Grows(buf, more, N, N, a, b)
<1>1. buf \in Seq(Nat) /\ more \in Seq(Nat) /\ Len(more) = Len(buf) /\ p \in Nat /\ Len(buf) \in Nat /\ Len(buf) <= Len(more)
  BY LenProperties DEF Patched
<1>2. \A i \in a + 1 .. b : i \in 1 .. Len(buf) /\ i # p
  BY <1>1
<1> QED  BY <1>1, <1>2 DEF Grows, SameCells, Patched

(* No name covers it.                                                      *)
LEMMA PatchedFound ==
    ASSUME NEW buf, NEW more, NEW p, Patched(buf, more, p), NEW N, NEW table, Found(buf, table, N), Avoids(N, p)
    PROVE  Found(more, table, N)
<1>1. ASSUME NEW n \in N  PROVE EntryOK(more, N, n)
  <2>1. EntryOK(buf, N, n) /\ N \subseteq Entry
    BY DEF Found, NamesOK
  <2>2. n.at \in Nat /\ n.end \in Nat /\ n.end <= Len(buf)
    BY <2>1, EntryTypes DEF EntryOK
  <2>3. Grows(buf, more, N, N, n.at, n.end)
    BY <2>2, PatchedGrows DEF Avoids
  <2> QED  BY <2>1, <2>3, EntryKept DEF Grows
<1> QED  BY <1>1 DEF Found, NamesOK

(* All the fields of a record are laid out.                                *)
BeforeLength(v, y, N, m, k, s, r, p, x) ==
    /\ v \in Writer /\ y \in Writer /\ m \in Message /\ k \in Nat /\ k <= Len(m.questions) + Len(m.records)
    /\ Laid(v, N, m, k, s) /\ r \in Record
    /\ HeadAt(v.buf, N, r, s[k + 1], p) /\ Avoids(N, p)
    /\ ItemsAt(v.buf, N, Items(r), Len(Items(r)), x) /\ x[1] = p /\ x[Len(Items(r)) + 1] = Len(v.buf)
    /\ Patched(v.buf, y.buf, p) /\ y.compression = v.compression /\ y.buf[p] = Len(v.buf) - p

(* The length of a record is set.                                          *)
LEMMA LengthSet ==
    ASSUME NEW v, NEW y, NEW N, NEW m, NEW k, NEW s, NEW r, NEW p, NEW x, BeforeLength(v, y, N, m, k, s, r, p, x)
    PROVE  Laid(y, N, m, k, s) /\ RecordAt(y.buf, N, r, s[k + 1], Len(y.buf))
<1> DEFINE n == Len(Items(r))
           B == Len(v.buf)
           a == s[k + 1]
<1>1. /\ v \in Writer /\ y \in Writer /\ m \in Message /\ k \in Nat /\ k <= Len(m.questions) + Len(m.records)
      /\ Laid(v, N, m, k, s) /\ r \in Record /\ HeadAt(v.buf, N, r, a, p) /\ Avoids(N, p)
      /\ Patched(v.buf, y.buf, p) /\ y.compression = v.compression /\ y.buf[p] = B - p
  BY DEF BeforeLength
<1>2. ItemsAt(v.buf, N, Items(r), n, x) /\ x[1] = p /\ x[n + 1] = B
  BY DEF BeforeLength
<1>3. v.buf \in Seq(Nat) /\ y.buf \in Seq(Nat) /\ Len(y.buf) = B /\ p \in Nat /\ B \in Nat
  BY <1>1, LenProperties DEF Patched
<1>4. PartsAt(v.buf, N, m, k, s) /\ a <= B /\ Found(v.buf, v.compression, N) /\ 2 <= B
      /\ v.buf[1] = Len(m.questions) /\ v.buf[2] = Len(m.records)
  BY <1>1 DEF Laid
<1>5. s[1] = 2 /\ a \in Nat /\ s[1] <= a
  BY <1>1, <1>4, RisingIs DEF PartsAt
<1>6. PICK e \in Nat : p = e + 2 /\ a < e /\ p <= B
  BY <1>1 DEF HeadAt, NamedAt
<1>7. n \in Nat /\ \A j \in 1 .. n : Items(r)[j] \in Item
  BY <1>1, ItemsTypes
<1> HIDE DEF n, a, B
<1>8. PartsAt(y.buf, N, m, k, s)
  <2>1. a < p /\ s[1] \in Nat
    BY <1>5, <1>6
  <2>2. Grows(v.buf, y.buf, N, N, s[1], a)
    BY <1>1, <1>4, <1>5, <2>1, PatchedGrows DEF B
  <2> QED  BY <1>1, <1>4, <2>2, PartsKept DEF a
<1>9. Found(y.buf, y.compression, N)
  BY <1>1, <1>4, PatchedFound
<1>10. Laid(y, N, m, k, s)
  <2>1. 1 \in 1 .. B /\ 2 \in 1 .. B /\ 1 # p /\ 2 # p
    <3>1. 2 <= a /\ a \in Nat
      BY <1>5
    <3>2. e > 2 /\ p > 2
      BY <1>6, <3>1
    <3> QED  BY <1>3, <1>4, <3>2
  <2>2. y.buf[1] = v.buf[1] /\ y.buf[2] = v.buf[2]
    BY <1>1, <2>1 DEF Patched, B
  <2> QED  BY <1>3, <1>4, <1>8, <1>9, <2>2 DEF Laid, a
<1>11. HeadAt(y.buf, N, r, a, p)
  <2>1. p - 1 \in Nat /\ p - 1 < p /\ p - 1 <= B
    BY <1>3, <1>6
  <2>2. Grows(v.buf, y.buf, N, N, a, p - 1)
    BY <1>1, <1>5, <2>1, PatchedGrows DEF B
  <2> QED  BY <1>1, <1>3, <1>5, <2>2, HeadKept
<1>12. ItemsAt(y.buf, N, Items(r), n, x)
  <2>1. p >= p /\ B <= B
    BY <1>3
  <2>2. Grows(v.buf, y.buf, N, N, p, B)
    BY <1>1, <1>3, <2>1, PatchedGrows DEF B
  <2> QED  BY <1>2, <1>7, <2>2, ItemsKept
<1>13. a <= p /\ p > 0 /\ x \in Seq(Nat)
  BY <1>2, <1>5, <1>6 DEF ItemsAt, Rising
<1>14. RecordAt(y.buf, N, r, a, B)
  <2>1. /\ HeadAt(y.buf, N, r, a, p) /\ a <= p /\ p > 0 /\ y.buf[p] = B - p
        /\ ItemsAt(y.buf, N, Items(r), Len(Items(r)), x) /\ x[1] = p /\ x[Len(Items(r)) + 1] = B
    BY <1>1, <1>2, <1>11, <1>12, <1>13 DEF n
  <2> QED  BY <1>3, <1>13, <2>1 DEF RecordAt
<1> QED  BY <1>3, <1>10, <1>14 DEF a

(* SetLength fills in the length: the record is the next part.             *)
LEMMA LengthStep ==
    ASSUME WriteInv, LayInv, SetLength
    PROVE  LayInv'
<1> DEFINE r == RecordAtHand
           nq == Len(sent.questions)
           nr == Len(sent.records)
           c == Len(w.buf) - lenPos
           buf == [w.buf EXCEPT ![lenPos] = c]
           y == [w EXCEPT !.buf = buf]
<1>1. /\ w' = [w EXCEPT !.buf[lenPos] = Len(w.buf) - lenPos] /\ epc = "field" /\ epc' \in {"record", "unencodable"}
      /\ UNCHANGED <<sent, todo, lenPos>> /\ todo.items = <<>>
  BY DEF SetLength, Write
<1>2. PICK N, s, k, x, j : InData(N, s, k, x, j)
  BY <1>1 DEF LayInv
<1>3. /\ k \in Nat /\ k <= nq + nr /\ Laid(w, N, sent, k, s)
      /\ Left(sent.records, todo.records) /\ Len(todo.records) < nr
      /\ (k + 1) + Len(todo.records) = nq + nr
      /\ HeadAt(w.buf, N, r, s[k + 1], lenPos) /\ Avoids(N, lenPos)
      /\ j \in Nat /\ ItemsAt(w.buf, N, Items(r), j, x) /\ x[1] = lenPos /\ x[j + 1] = Len(w.buf)
      /\ j + Len(todo.items) = Len(Items(r))
  BY <1>2 DEF InData
<1>n. /\ w \in Writer /\ sent \in Message /\ w.buf \in Seq(Nat) /\ Len(w.buf) \in Nat /\ lenPos \in 1 .. Len(w.buf)
      /\ nq \in Nat /\ nr \in Nat /\ Len(todo.records) \in Nat
  BY <1>1, EncoderTypes DEF WriteInv
<1>a. /\ nr - Len(todo.records) \in 1 .. nr /\ ~(k + 1 <= nq) /\ (k + 1) - nq = nr - Len(todo.records)
      /\ k + 1 \in Nat /\ k + 1 <= nq + nr
  <2>2. /\ Len(todo.records) \in Nat /\ nr \in Nat /\ k \in Nat /\ nq \in Nat
        /\ Len(todo.records) < nr /\ (k + 1) + Len(todo.records) = nq + nr
    BY <1>3, <1>n
  <2> DEFINE l == Len(todo.records)
  <2>3. l \in Nat /\ nr \in Nat /\ k \in Nat /\ nq \in Nat /\ l < nr /\ (k + 1) + l = nq + nr
    BY <2>2
  <2> HIDE DEF nq, nr, l
  <2>4. nr - l \in 1 .. nr /\ ~(k + 1 <= nq) /\ (k + 1) - nq = nr - l /\ k + 1 \in Nat /\ k + 1 <= nq + nr
    BY <2>3
  <2> QED  BY <2>4 DEF l
<1>r. r \in Record
  BY <1>a, EncoderTypes DEF RecordAtHand
<1>j. j = Len(Items(r))
  <2>1. j + 0 = Len(Items(r))
    BY <1>1, <1>3, TextTypes
  <2> QED  BY <1>3, <2>1
<1>4. c \in Nat /\ lenPos \in Nat
  BY <1>n
<1>5. w' = y
  BY <1>1, <1>n DEF Writer
<1>6. /\ buf \in Seq(Nat) /\ Len(buf) = Len(w.buf)
      /\ \A i \in 1 .. Len(w.buf) : buf[i] = IF i = lenPos THEN c ELSE w.buf[i]
  <2> HIDE DEF c
  <2> QED  BY <1>n, <1>4, ExceptSeq
<1> HIDE DEF buf, r
<1>7. y \in Writer /\ y.buf = buf /\ y.compression = w.compression
  BY <1>n, <1>6 DEF Writer, Text, Cell
<1> HIDE DEF y
<1>8. Patched(w.buf, y.buf, lenPos) /\ y.buf[lenPos] = Len(w.buf) - lenPos /\ Len(y.buf) = Len(w.buf)
  BY <1>4, <1>6, <1>7, <1>n DEF Patched
<1>9. BeforeLength(w, y, N, sent, k, s, r, lenPos, x)
  BY <1>3, <1>j, <1>n, <1>r, <1>7, <1>8 DEF BeforeLength
<1>10. Laid(y, N, sent, k, s) /\ RecordAt(y.buf, N, r, s[k + 1], Len(y.buf))
  BY <1>9, LengthSet
<1>11. PartAt(y.buf, N, sent, k + 1, s[k + 1], Len(y.buf))
  <2>1. sent.records[(k + 1) - nq] = r
    BY <1>a DEF r, RecordAtHand
  <2> QED  BY <1>10, <1>a, <2>1 DEF PartAt
<1>b. PICK b : b = Len(y.buf)
  OBVIOUS
<1>t. PICK t : t = Append(s, b)
  OBVIOUS
<1>12. Laid(y, N, sent, k + 1, t) /\ t[(k + 1) + 1] = b
  BY <1>3, <1>7, <1>10, <1>11, <1>b, <1>t, PartAdded
<1>13. epc' = "record" => AtPart(N, t, k + 1)'
  <2>1. /\ Laid(w', N, sent', k + 1, t) /\ t[(k + 1) + 1] = Len(w'.buf) /\ k + 1 \in Nat
        /\ k + 1 <= Len(sent'.questions) + Len(sent'.records)
    BY <1>1, <1>5, <1>12, <1>a, <1>b
  <2>2. Left(sent'.records, todo'.records) /\ (k + 1) + Len(todo'.records) = Len(sent'.questions) + Len(sent'.records)
    BY <1>1, <1>3
  <2> QED  BY <2>1, <2>2 DEF AtPart
<1> QED  BY <1>1, <1>13 DEF LayInv

(* When nothing is left, all the parts are laid out.                       *)
LEMMA EncodeEnds ==
    ASSUME WriteInv, LayInv, EndEncode
    PROVE  LayInv'
<1> DEFINE ok == Len(w.buf) <= MaxPacketLen
           y == [w EXCEPT !.ok = ok]
<1>1. /\ w' = y /\ epc = "record" /\ epc' = (IF y.ok THEN "encoded" ELSE "unencodable") /\ UNCHANGED <<sent, todo, lenPos>>
      /\ todo.records = <<>>
  BY DEF EndEncode, Write
<1>2. PICK N, s, k : AtPart(N, s, k)
  BY <1>1 DEF LayInv
<1>3. /\ k \in Nat /\ k <= Len(sent.questions) + Len(sent.records) /\ Laid(w, N, sent, k, s) /\ s[k + 1] = Len(w.buf)
      /\ k + Len(todo.records) = Len(sent.questions) + Len(sent.records)
  BY <1>1, <1>2 DEF AtPart
<1>4. y.buf = w.buf /\ y.compression = w.compression /\ y.ok = ok
  BY EncoderTypes DEF Writer
<1> HIDE DEF y
<1>5. Laid(y, N, sent, k, s)
  BY <1>3, <1>4 DEF Laid
<1>6. k = Len(sent.questions) + Len(sent.records)
  <2>1. k + 0 = Len(sent.questions) + Len(sent.records)
    BY <1>1, <1>3, TextTypes
  <2> QED  BY <1>3, <2>1
<1>7. epc' = "encoded" => AtPart(N, s, k)'
  BY <1>1, <1>3, <1>4, <1>5, <1>6 DEF AtPart
<1> QED  BY <1>1, <1>7 DEF LayInv

(* Every step of the encoder keeps the layout.                             *)
LEMMA LayKept == ASSUME WriteInv, LayInv, AsciiNames(sent), EncoderNext  PROVE LayInv'
BY QuestionStep, QuestionsEnd, HeadStep, DataStep, LengthStep, EncodeEnds DEF EncoderNext

(* The counts are written first.                                           *)
LEMMA LayStarts ==
    ASSUME NEW m \in Message, StartEncode(m)
    PROVE  LayInv'
<1> DEFINE c == NormalizeCounts(m)
<1>1. /\ epc' = "question" /\ sent' = m /\ todo'.questions = m.questions /\ todo'.records = m.records
      /\ w' = Put(NewWriter, c)
  BY DEF StartEncode, NothingToDo
<1>m. Len(m.questions) \in Nat /\ Len(m.records) \in Nat /\ m.questions \in Seq(Question)
  BY LenProperties DEF Message, Question
<1>2. c \in Seq(Nat) /\ Len(c) = 2 /\ c[1] = Len(m.questions) /\ c[2] = Len(m.records)
  BY <1>m DEF NormalizeCounts
<1> HIDE DEF c
<1>3. w'.buf = c /\ w'.compression = {}
  <2>1. w' = [NewWriter EXCEPT !.buf = <<>> \o c]
    BY <1>1 DEF Put, NewWriter
  <2>2. <<>> \o c = c
    BY <1>2, ConcatEmptySeq
  <2> QED  BY <2>1, <2>2 DEF NewWriter
<1>4. Found(c, {}, {})
  BY DEF Found, NamesOK, TableOK
<1> DEFINE s == <<2>>
<1>5. s \in Seq(Nat) /\ Len(s) = 1 /\ s[1] = 2
  BY TextTypes
<1> HIDE DEF s
<1>6. Rising(s)
  <2>1. \A i, j \in 1 .. 1 : i = 1 /\ j = 1
    OBVIOUS
  <2>2. s[1] <= s[1]
    BY <1>5
  <2> QED  BY <1>5, <2>1, <2>2 DEF Rising
<1>7. PartsAt(c, {}, m, 0, s)
  <2>1. Len(s) = 0 + 1 /\ 1 .. 0 = {}
    BY <1>5
  <2> QED  BY <1>5, <1>6, <2>1 DEF PartsAt
<1>8. Laid(w', {}, m, 0, s) /\ s[0 + 1] = 2 /\ s[0 + 1] = Len(w'.buf)
  <2>1. s[0 + 1] = 2 /\ 2 <= Len(c) /\ s[0 + 1] <= Len(c)
    BY <1>2, <1>5
  <2> QED  BY <1>2, <1>3, <1>4, <1>7, <2>1 DEF Laid
<1>9. Left(m.questions, m.questions) /\ 0 + Len(m.questions) = Len(m.questions) /\ 0 \in Nat
      /\ 0 <= Len(m.questions) + Len(m.records)
  <2>1. Left(m.questions, m.questions)
    BY <1>m, LeftAll
  <2>2. \A a, b \in Nat : 0 + a = a /\ 0 <= a + b
    OBVIOUS
  <2> QED  BY <1>m, <2>1, <2>2
<1>10. AtPart({}, s, 0)'
  <2>1. epc' # "record" /\ epc' # "encoded"
    BY <1>1
  <2> QED  BY <1>1, <1>8, <1>9, <2>1 DEF AtPart, s
<1> QED  BY <1>1, <1>10 DEF LayInv

-------------------------------------------------------------------------------

(* What looks for n more cells is followed by fields that take as many.    *)
Backed(f, p) ==
    \/ f[p].n = 0
    \/ p + 1 <= Len(f) /\ f[p + 1].op = "numbers" /\ f[p].n <= f[p + 1].n
    \/ /\ p + 2 <= Len(f) /\ f[p + 1].op = "numbers" /\ f[p].n <= f[p + 1].n + 1
       /\ f[p + 2].op \in {"name", "counted"}
    \/ p + 1 <= Len(f) /\ f[p + 1].op = "counted" /\ f[p].n <= 1

(* The rest comes last, alone after a check of the whole length.           *)
Formed(f) ==
    /\ f \in Seq(Fields)
    /\ \A p \in 1 .. Len(f) :
          /\ f[p].op # "strings"
          /\ f[p].op = "exactly" => p + 1 = Len(f) /\ f[p + 1].op = "rest"
          /\ f[p].op = "rest" => p = Len(f)
          /\ f[p].op = "need" => Backed(f, p)

(* The fields of every type but TXT are formed so.                         *)
LEMMA FieldsAreFormed ==
    ASSUME NEW type \in Nat
    PROVE  IF type = TypeTXT THEN RDataFields(type) = <<Strings>> ELSE Formed(RDataFields(type))
<1>1. CASE type = TypeTXT
  BY <1>1 DEF RDataFields, NSECFields, TypeA, TypeAAAA, TypeCNAME, TypeNS, TypePTR, TypeMX, TypeSOA,
         TypeTXT, TypeSRV, TypeCAA, TypeRRSIG, TypeDNSKEY, TypeDS, TypeNSEC, TypeNSEC3
<1>2. CASE type # TypeTXT
  <2> USE DEF Formed, Backed, Fields, Ops, Need, Exactly, Numbers, Name, Counted, Strings, Rest
  <2>1. Formed(<<Exactly(1), Rest>>) /\ Formed(<<Name, Need(0)>>) /\ Formed(<<Name>>) /\ Formed(<<Rest>>)
    OBVIOUS
  <2>2. Formed(<<Need(2), Numbers(1), Name>>) /\ Formed(<<Need(4), Numbers(3), Name>>)
    OBVIOUS
  <2>3. Formed(<<Name, Name, Need(5), Numbers(5)>>)
    OBVIOUS
  <2>4. Formed(<<Need(2), Numbers(1), Counted, Rest>>)
    OBVIOUS
  <2>5. Formed(<<Need(7), Numbers(7), Name, Need(0), Rest>>)
    OBVIOUS
  <2>6. Formed(<<Need(3), Numbers(3), Rest>>) /\ Formed(<<Name, Need(0), Rest>>)
    OBVIOUS
  <2>7. Formed(<<Need(4), Numbers(3), Counted, Need(1), Counted, Rest>>)
    OBVIOUS
  <2> HIDE DEF Formed, Need, Exactly, Numbers, Name, Counted, Strings, Rest
  <2> QED  BY <1>2, <2>1, <2>2, <2>3, <2>4, <2>5, <2>6, <2>7
     DEF RDataFields, NSECFields, TypeA, TypeAAAA, TypeCNAME, TypeNS, TypePTR, TypeMX, TypeSOA,
         TypeTXT, TypeSRV, TypeCAA, TypeRRSIG, TypeDNSKEY, TypeDS, TypeNSEC, TypeNSEC3
<1> QED  BY <1>1, <1>2

(* The number of items that the first k fields become.                     *)
Count(f, k) == UpTo(Reading(f), k)

(* The items of the fields up to k: the number grows by one at each field  *)
(* that is read.                                                           *)
LEMMA CountIs ==
    ASSUME NEW f \in Seq(Fields)
    PROVE  /\ Len(f) \in Nat /\ Count(f, 0) = 0 /\ Count(f, Len(f)) = Cardinality(Reading(f))
           /\ \A k \in Nat : Count(f, k) \in Nat
           /\ \A k \in Nat : k + 1 \in Reading(f) => Count(f, k + 1) = Count(f, k) + 1
           /\ \A k \in Nat : k + 1 \notin Reading(f) => Count(f, k + 1) = Count(f, k)
           /\ \A i, j \in Nat : i <= j => Count(f, i) <= Count(f, j)
           /\ \A p \in Reading(f) : /\ p \in 1 .. Len(f) /\ p \in Nat /\ ItemOf(f, p) = Count(f, p)
                                    /\ Count(f, p) >= 1 /\ Count(f, p) <= Cardinality(Reading(f))
           /\ \A p \in 1 .. Len(f) : p \in Reading(f) <=> f[p].op \notin {"need", "exactly"}
<1> DEFINE D == Reading(f)
<1>1. Len(f) \in Nat /\ D \subseteq 1 .. Len(f) /\ DOMAIN f = 1 .. Len(f)
  BY LenProperties DEF Reading
<1>2. \A p \in 1 .. Len(f) : p \in D <=> f[p].op \notin {"need", "exactly"}
  BY <1>1 DEF Reading
<1>3. \A p : ItemOf(f, p) = Count(f, p)
  BY DEF ItemOf, Count, UpTo
<1> HIDE DEF D
<1>4. /\ Cardinality(D) \in Nat
      /\ UpTo(D, 0) = 0 /\ UpTo(D, Len(f)) = Cardinality(D)
      /\ \A i \in Nat : UpTo(D, i) \in Nat
      /\ \A i \in Nat : UpTo(D, i + 1) = UpTo(D, i) + (IF i + 1 \in D THEN 1 ELSE 0)
      /\ \A i, j \in Nat : i <= j => UpTo(D, i) <= UpTo(D, j)
      /\ \A i, j \in Nat : i < j /\ j \in D => UpTo(D, i) < UpTo(D, j)
  BY <1>1, UpToIs
<1>5. ASSUME NEW p \in D
      PROVE  p \in 1 .. Len(f) /\ p \in Nat /\ UpTo(D, p) >= 1 /\ UpTo(D, p) <= Cardinality(D)
  <2>1. p \in 1 .. Len(f) /\ p \in Nat /\ 0 < p /\ p <= Len(f)
    BY <1>1
  <2>2. UpTo(D, 0) < UpTo(D, p) /\ UpTo(D, p) <= UpTo(D, Len(f)) /\ UpTo(D, p) \in Nat
    BY <1>1, <1>4, <2>1
  <2> QED  BY <1>4, <2>1, <2>2
<1>6. \A i \in Nat : (i + 1 \in D => UpTo(D, i + 1) = UpTo(D, i) + 1) /\ (i + 1 \notin D => UpTo(D, i + 1) = UpTo(D, i))
  <2> SUFFICES ASSUME NEW i \in Nat
               PROVE  (i + 1 \in D => UpTo(D, i + 1) = UpTo(D, i) + 1) /\ (i + 1 \notin D => UpTo(D, i + 1) = UpTo(D, i))
    OBVIOUS
  <2>1. UpTo(D, i) \in Nat /\ UpTo(D, i + 1) = UpTo(D, i) + (IF i + 1 \in D THEN 1 ELSE 0)
    BY <1>4
  <2> QED  BY <2>1
<1> QED  BY <1>1, <1>2, <1>3, <1>4, <1>5, <1>6 DEF Count, D

-------------------------------------------------------------------------------

(* The first k fields have become the items of data.                       *)
Matched(f, k, data) ==
    /\ Len(data) = Count(f, k)
    /\ \A p \in Reading(f) : p <= k => FitsField(f, p, data[Count(f, p)])

(* Before the first field there is no item.                                *)
LEMMA MatchedNone == ASSUME NEW f \in Seq(Fields)  PROVE Matched(f, 0, <<>>)
<1>1. Count(f, 0) = 0 /\ \A p \in Reading(f) : p \in 1 .. Len(f) /\ p \in Nat
  BY CountIs
<1>2. Len(<<>>) = 0 /\ \A p \in Reading(f) : ~ (p <= 0)
  BY <1>1, TextTypes
<1> QED  BY <1>1, <1>2 DEF Matched

(* A field that only looks at the length adds nothing.                     *)
LEMMA MatchedSame ==
    ASSUME NEW f \in Seq(Fields), NEW k \in Nat, k + 1 <= Len(f), f[k + 1].op \in {"need", "exactly"},
           NEW data, Matched(f, k, data)
    PROVE  Matched(f, k + 1, data)
<1>1. Len(f) \in Nat /\ k + 1 \in 1 .. Len(f)
  BY CountIs
<1>2. k + 1 \notin Reading(f)
  BY <1>1, CountIs
<1>3. Count(f, k + 1) = Count(f, k)
  BY <1>2, CountIs
<1>4. \A p \in Reading(f) : p \in Nat
  BY CountIs
<1>5. \A p \in Reading(f) : p <= k + 1 => p <= k
  BY <1>2, <1>4
<1> QED  BY <1>3, <1>5 DEF Matched

(* A field that is read adds an item.                                      *)
LEMMA MatchedNext ==
    ASSUME NEW f \in Seq(Fields), NEW k \in Nat, k + 1 <= Len(f), f[k + 1].op \notin {"need", "exactly"},
           NEW data \in Seq(Item), Matched(f, k, data), NEW item \in Item, FitsField(f, k + 1, item)
    PROVE  Matched(f, k + 1, Append(data, item))
<1>1. Len(f) \in Nat /\ k + 1 \in 1 .. Len(f)
  BY CountIs
<1>2. k + 1 \in Reading(f)
  BY <1>1, CountIs
<1>3. Count(f, k + 1) = Count(f, k) + 1 /\ Count(f, k) \in Nat
  BY <1>2, CountIs
<1>4. Len(data) = Count(f, k)
  BY DEF Matched
<1> DEFINE n == Count(f, k)
           more == Append(data, item)
<1>5. Len(more) = n + 1 /\ more[n + 1] = item /\ \A i \in 1 .. n : more[i] = data[i]
  BY <1>4, AppendProperties
<1> HIDE DEF more
<1>6. ASSUME NEW p \in Reading(f), p <= k + 1  PROVE FitsField(f, p, more[Count(f, p)])
  <2>1. p \in Nat /\ Count(f, p) \in Nat /\ Count(f, p) >= 1
    BY CountIs
  <2>2. CASE p = k + 1
    BY <1>3, <1>5, <2>2
  <2>3. CASE p <= k
    <3>1. Count(f, p) <= n
      BY <2>1, <2>3, CountIs
    <3>2. Count(f, p) \in 1 .. n
      BY <1>3, <2>1, <3>1
    <3>3. FitsField(f, p, data[Count(f, p)])
      BY <2>3 DEF Matched
    <3> QED  BY <1>5, <3>2, <3>3
  <2> QED  BY <1>6, <2>1, <2>2, <2>3
<1> QED  BY <1>3, <1>5, <1>6 DEF Matched, more

(* When all fields are done, the data has the form of its type.            *)
LEMMA MatchedAll ==
    ASSUME NEW type \in Nat, type # TypeTXT, NEW data,
           Matched(RDataFields(type), Len(RDataFields(type)), data)
    PROVE  Fits(type, data)
<1> DEFINE f == RDataFields(type)
<1>1. f \in Seq(Fields)
  BY FieldsAreFormed DEF Formed
<1> HIDE DEF f
<1>2. /\ Len(f) \in Nat /\ Count(f, Len(f)) = Cardinality(Reading(f))
      /\ \A p \in Reading(f) : p \in 1 .. Len(f) /\ ItemOf(f, p) = Count(f, p)
  BY <1>1, CountIs
<1>3. Matched(f, Len(f), data)
  BY DEF f
<1>4. /\ Len(data) = Cardinality(Reading(f))
      /\ \A p \in Reading(f) : FitsField(f, p, data[ItemOf(f, p)])
  BY <1>2, <1>3 DEF Matched
<1> QED  BY <1>4 DEF Fits, f

(* Of data that has the form of its type, the item after the first of      *)
(* them is the one the next field reads.                                   *)
LEMMA FitsNext ==
    ASSUME NEW type \in Nat, type # TypeTXT, NEW data, Fits(type, data),
           NEW k \in Nat, k + 1 <= Len(RDataFields(type)),
           RDataFields(type)[k + 1].op \notin {"need", "exactly"}
    PROVE  LET f == RDataFields(type)
               j == Count(f, k)
           IN  /\ j \in Nat /\ j + 1 <= Len(data) /\ FitsField(f, k + 1, data[j + 1])
               /\ Count(f, k + 1) = j + 1
               /\ k + 1 = Len(f) => j + 1 = Len(data)
<1> DEFINE f == RDataFields(type)
           j == Count(f, k)
<1>1. f \in Seq(Fields)
  BY FieldsAreFormed DEF Formed
<1>2. Len(data) = Cardinality(Reading(f)) /\ \A p \in Reading(f) : FitsField(f, p, data[ItemOf(f, p)])
  BY DEF Fits
<1>3. f[k + 1].op \notin {"need", "exactly"} /\ k + 1 <= Len(f)
  OBVIOUS
<1> HIDE DEF f
<1>4. k + 1 \in Reading(f)
  <2>1. Len(f) \in Nat
    BY <1>1, CountIs
  <2>2. k + 1 \in 1 .. Len(f)
    BY <1>3, <2>1
  <2> QED  BY <1>1, <1>3, <2>2, CountIs
<1>5. j \in Nat /\ Count(f, k + 1) = j + 1 /\ ItemOf(f, k + 1) = Count(f, k + 1)
      /\ Count(f, k + 1) <= Cardinality(Reading(f)) /\ Count(f, Len(f)) = Cardinality(Reading(f))
  BY <1>1, <1>4, CountIs
<1> HIDE DEF j
<1>6. /\ j \in Nat /\ j + 1 <= Len(data) /\ FitsField(f, k + 1, data[j + 1])
      /\ Count(f, k + 1) = j + 1
      /\ k + 1 = Len(f) => j + 1 = Len(data)
  BY <1>2, <1>4, <1>5
<1> QED  BY <1>6 DEF f, j

-------------------------------------------------------------------------------

(* What is known of a record while its data is read: the fields before     *)
(* those left have become items, and a check of the whole length holds     *)
(* until the next field is read.                                           *)
Shape(type, fields, data, cur, end) ==
    LET f == RDataFields(type)
        k == Len(f) - Len(fields)
    IN  IF type = TypeTXT
        THEN (\A i \in 1 .. Len(data) : data[i].op = "counted") /\ fields \in {<<Strings>>, <<>>}
        ELSE /\ Left(f, fields) /\ Matched(f, k, data)
             /\ k > 0 /\ f[k].op = "exactly" => cur + f[k].n = end

(* The field at hand is the one after the first k of a list.               *)
AtHand(f, k, fields, t, data, cur, end) ==
    /\ Formed(f) /\ k = Len(f) - Len(fields) /\ k + 1 = Len(f) - Len(t)
    /\ Len(f) \in Nat /\ k + 1 \in 1 .. Len(f) /\ k + 1 <= Len(f) /\ f[k + 1] = Head(fields)
    /\ Left(f, t) /\ Matched(f, k, data)
    /\ k > 0 /\ f[k].op = "exactly" => cur + f[k].n = end

(* The field at hand is the one after those that are done.                 *)
LEMMA FieldAtHand ==
    ASSUME NEW type \in Nat, type # TypeTXT, NEW fields \in Seq(Fields), fields # <<>>,
           NEW data, NEW cur, NEW end, Shape(type, fields, data, cur, end)
    PROVE  \E k \in Nat : AtHand(RDataFields(type), k, fields, Tail(fields), data, cur, end)
<1> DEFINE f == RDataFields(type)
           t == Tail(fields)
           k == Len(f) - Len(fields)
<1>1. Formed(f) /\ f \in Seq(Fields)
  BY FieldsAreFormed DEF Formed
<1>2. Left(f, fields) /\ Matched(f, k, data) /\ (k > 0 /\ f[k].op = "exactly" => cur + f[k].n = end)
  BY DEF Shape
<1> HIDE DEF f
<1>3. /\ Left(f, t) /\ Len(t) \in Nat /\ Len(fields) = Len(t) + 1
      /\ Head(fields) = f[Len(f) - Len(t)] /\ Len(t) < Len(f)
  BY <1>1, <1>2, LeftNext
<1>4. Len(f) \in Nat
  BY <1>1, LenProperties
<1>5. k \in Nat /\ k + 1 = Len(f) - Len(t) /\ k + 1 \in 1 .. Len(f) /\ k + 1 <= Len(f)
  BY <1>3, <1>4
<1>6. f[k + 1] = Head(fields)
  BY <1>3, <1>5
<1> HIDE DEF k, t
<1>7. AtHand(f, k, fields, t, data, cur, end)
  <2>1. k = Len(f) - Len(fields)
    BY DEF k
  <2> QED  BY <1>1, <1>2, <1>3, <1>4, <1>5, <1>6, <2>1 DEF AtHand
<1> QED  BY <1>5, <1>7 DEF f, t

(* After a look at the length.                                             *)
LEMMA ShapeLooked ==
    ASSUME NEW type \in Nat, type # TypeTXT, NEW fields \in Seq(Fields), fields # <<>>,
           NEW data, NEW cur \in Nat, NEW end \in Nat, Shape(type, fields, data, cur, end),
           Head(fields).op \in {"need", "exactly"}, Head(fields).op = "exactly" => cur + Head(fields).n = end
    PROVE  Shape(type, Tail(fields), data, cur, end)
<1> DEFINE f == RDataFields(type)
           t == Tail(fields)
<1>1. PICK k \in Nat : /\ Formed(f) /\ k = Len(f) - Len(fields) /\ k + 1 = Len(f) - Len(t)
                       /\ Len(f) \in Nat /\ k + 1 \in 1 .. Len(f) /\ k + 1 <= Len(f) /\ f[k + 1] = Head(fields)
                       /\ Left(f, t) /\ Matched(f, k, data)
                       /\ k > 0 /\ f[k].op = "exactly" => cur + f[k].n = end
  <2>1. PICK i \in Nat : AtHand(f, i, fields, t, data, cur, end)
    BY FieldAtHand
  <2> HIDE DEF f, t
  <2> QED  BY <2>1, Zenon DEF AtHand
<1> HIDE DEF f, t
<1>2. f \in Seq(Fields)
  BY <1>1 DEF Formed
<1>3. Matched(f, k + 1, data)
  BY <1>1, <1>2, MatchedSame
<1>4. f[k + 1].op = "exactly" => cur + f[k + 1].n = end
  BY <1>1
<1>5. Left(f, t) /\ Matched(f, Len(f) - Len(t), data)
      /\ (Len(f) - Len(t) > 0 /\ f[Len(f) - Len(t)].op = "exactly" => cur + f[Len(f) - Len(t)].n = end)
  BY <1>1, <1>3, <1>4
<1> QED  BY <1>5 DEF Shape, f, t

(* After a field that was read.                                            *)
LEMMA ShapeRead ==
    ASSUME NEW type \in Nat, type # TypeTXT, NEW fields \in Seq(Fields), fields # <<>>,
           NEW data \in Seq(Item), NEW cur \in Nat, NEW end \in Nat, Shape(type, fields, data, cur, end),
           Head(fields).op \notin {"need", "exactly"},
           NEW item \in Item, item.op = Head(fields).op, item.op = "numbers" => Len(item.value) = Head(fields).n,
           item.op = "rest" => cur + Len(item.value) = end, NEW to
    PROVE  Shape(type, Tail(fields), Append(data, item), to, end)
<1> DEFINE f == RDataFields(type)
           t == Tail(fields)
<1>1. PICK k \in Nat : /\ Formed(f) /\ k = Len(f) - Len(fields) /\ k + 1 = Len(f) - Len(t)
                       /\ Len(f) \in Nat /\ k + 1 \in 1 .. Len(f) /\ k + 1 <= Len(f) /\ f[k + 1] = Head(fields)
                       /\ Left(f, t) /\ Matched(f, k, data)
                       /\ k > 0 /\ f[k].op = "exactly" => cur + f[k].n = end
  <2>1. PICK i \in Nat : AtHand(f, i, fields, t, data, cur, end)
    BY FieldAtHand
  <2> HIDE DEF f, t
  <2> QED  BY <2>1, Zenon DEF AtHand
<1> HIDE DEF f, t
<1>2. f \in Seq(Fields)
  BY <1>1 DEF Formed
<1>3. FitsField(f, k + 1, item)
  <2>1. item.op = f[k + 1].op /\ (item.op = "numbers" => Len(item.value) = f[k + 1].n)
    BY <1>1
  <2>2. ASSUME k + 1 > 1, f[(k + 1) - 1].op = "exactly"  PROVE Len(item.value) = f[(k + 1) - 1].n
    <3>1. (k + 1) - 1 = k /\ k > 0 /\ k \in 1 .. Len(f)
      BY <1>1, <2>2
    <3>2. f[k].op = "exactly" /\ cur + f[k].n = end
      BY <1>1, <2>2, <3>1
    <3>3. f[k + 1].op = "rest"
      BY <1>1, <3>1, <3>2 DEF Formed
    <3>4. Len(item.value) \in Nat /\ f[k].n \in Nat
      <4>1. f[k] \in Fields
        BY <1>2, <3>1, ElementOfSeq
      <4> QED  BY <4>1, LenProperties DEF Item, Text, Fields, Cell
    <3>5. cur + Len(item.value) = end
      BY <2>1, <3>3
    <3>6. Len(item.value) = f[k].n
      BY <3>2, <3>4, <3>5
    <3> QED  BY <3>1, <3>6
  <2> QED  BY <2>1, <2>2 DEF FitsField
<1>4. Matched(f, k + 1, Append(data, item))
  BY <1>1, <1>2, <1>3, MatchedNext
<1>5. f[k + 1].op # "exactly"
  BY <1>1
<1> DEFINE more == Append(data, item)
<1> HIDE DEF more
<1>6. Left(f, t) /\ Matched(f, Len(f) - Len(t), more)
      /\ (Len(f) - Len(t) > 0 /\ f[Len(f) - Len(t)].op = "exactly" => to + f[Len(f) - Len(t)].n = end)
  BY <1>1, <1>4, <1>5 DEF more
<1> QED  BY <1>6 DEF Shape, f, t, more

(* Before the first field, and after the last.                             *)
LEMMA ShapeStarts ==
    ASSUME NEW type \in Nat, NEW cur, NEW end
    PROVE  Shape(type, RDataFields(type), <<>>, cur, end)
<1> DEFINE f == RDataFields(type)
<1>1. CASE type = TypeTXT
  <2>1. f = <<Strings>> /\ Len(<<>>) = 0 /\ 1 .. 0 = {}
    BY <1>1, FieldsAreFormed, TextTypes
  <2> QED  BY <1>1, <2>1 DEF Shape
<1>2. CASE type # TypeTXT
  <2>1. f \in Seq(Fields)
    BY <1>2, FieldsAreFormed DEF Formed
  <2> HIDE DEF f
  <2>2. Left(f, f) /\ Len(f) \in Nat /\ Matched(f, 0, <<>>)
    BY <2>1, LeftAll, LenProperties, MatchedNone
  <2>3. Len(f) - Len(f) = 0 /\ ~(0 > 0)
    BY <2>2
  <2>4. Left(f, f) /\ Matched(f, Len(f) - Len(f), <<>>) /\ ~(Len(f) - Len(f) > 0)
    BY <2>2, <2>3
  <2> QED  BY <1>2, <2>4 DEF Shape, f
<1> QED  BY <1>1, <1>2

(* When no field is left, the data fits its type.                          *)
LEMMA ShapeEnds ==
    ASSUME NEW type \in Nat, NEW data \in Seq(Item), NEW cur, NEW end, Shape(type, <<>>, data, cur, end)
    PROVE  Fits(type, data)
<1>1. CASE type = TypeTXT
  <2>1. DOMAIN data = 1 .. Len(data)
    BY LenProperties
  <2> QED  BY <1>1, <2>1 DEF Shape, Fits
<1>2. CASE type # TypeTXT
  <2> DEFINE f == RDataFields(type)
  <2>1. f \in Seq(Fields)
    BY <1>2, FieldsAreFormed DEF Formed
  <2>2. Matched(f, Len(f) - Len(<<>>), data)
    BY <1>2 DEF Shape
  <2> HIDE DEF f
  <2>3. Len(f) - Len(<<>>) = Len(f)
    BY <2>1, LenProperties, TextTypes
  <2>4. Matched(f, Len(f), data)
    BY <2>2, <2>3
  <2> QED  BY <1>2, <2>4, MatchedAll DEF f
<1> QED  BY <1>1, <1>2

-------------------------------------------------------------------------------

(* parseRData is at work, and what it has read so far.                     *)
ReadingData == pc = "field" \/ (InName /\ nm.user = "rdata")
ShapeNow == Shape(rr.type, rr.fields, rr.data, rr.cur, rr.end)

(* The data of every record that was understood has the form of its type.  *)
ShapeInv == WellFormed(msg) /\ (ReadingData => ShapeNow)

(* A record with fitting data may be added.                                *)
LEMMA FormAdded ==
    ASSUME NEW m \in Message, WellFormed(m), NEW r \in Record, r.parsed => Fits(r.type, r.data)
    PROVE  WellFormed([m EXCEPT !.records = Append(@, r)])
<1>1. m.records \in Seq(Record)
  BY DEF Message, Record
<1> DEFINE a == m.records
           b == Append(a, r)
           n == Len(a)
<1>2. n \in Nat /\ DOMAIN a = 1 .. n
  BY <1>1, LenProperties
<1>3. DOMAIN b = 1 .. n + 1 /\ b[n + 1] = r /\ \A i \in 1 .. n : b[i] = a[i]
  <2>1. b \in Seq(Record) /\ Len(b) = n + 1 /\ b[n + 1] = r /\ \A i \in 1 .. n : b[i] = a[i]
    BY <1>1, <1>2, AppendProperties
  <2> HIDE DEF b
  <2> QED  BY <2>1, LenProperties
<1>4. \A i \in 1 .. n : a[i].parsed => Fits(a[i].type, a[i].data)
  BY <1>2 DEF WellFormed
<1>5. [m EXCEPT !.records = Append(@, r)].records = b
  BY DEF Message
<1> HIDE DEF a, b, n
<1>6. \A i \in 1 .. n + 1 : b[i].parsed => Fits(b[i].type, b[i].data)
  <2>1. \A i \in 1 .. n + 1 : i = n + 1 \/ i \in 1 .. n
    BY <1>2
  <2> QED  BY <1>3, <1>4, <2>1
<1>7. \A i \in DOMAIN b : b[i].parsed => Fits(b[i].type, b[i].data)
  BY <1>3, <1>6
<1> QED  BY <1>5, <1>7 DEF WellFormed

(* A record is added with the data read for it, or without.                *)
LEMMA RecordAdded ==
    ASSUME IInv, ReadInv, WellFormed(msg), NEW parsed \in BOOLEAN, EndRecord(parsed),
           parsed => Fits(rr.type, rr.data)
    PROVE  ShapeInv'
<1> DEFINE r == [name |-> rr.name, type |-> rr.type, raw |-> Cells(rr.start, rr.end),
                 parsed |-> parsed, data |-> IF parsed THEN rr.data ELSE <<>>]
<1>1. msg' = [msg EXCEPT !.records = Append(@, r)] /\ pc' = "section"
  BY DEF EndRecord, Goto
<1>2. r \in Record
  <2>1. Cells(rr.start, rr.end) \in Seq(Nat)
    BY CellType DEF IInv, RecordOK, ReadInv
  <2>2. <<>> \in Seq(Item)
    BY EmptySeq
  <2> QED  BY <2>1, <2>2 DEF Record, ReadInv, Text, Cell
<1>3. r.parsed => Fits(r.type, r.data)
  OBVIOUS
<1> HIDE DEF r
<1>4. msg \in Message
  BY DEF ReadInv
<1>5. WellFormed([msg EXCEPT !.records = Append(@, r)])
  BY <1>2, <1>3, <1>4, FormAdded
<1>6. WellFormed(msg)'
  BY <1>1, <1>5
<1>7. ~ReadingData'
  BY <1>1 DEF ReadingData, InName
<1> QED  BY <1>6, <1>7 DEF ShapeInv

(* A step that leaves the record and the message alone.                    *)
LEMMA ShapeAlone ==
    ASSUME ShapeInv, UNCHANGED <<rr, msg>>, ReadingData' => ReadingData
    PROVE  ShapeInv'
<1>1. WellFormed(msg)' = WellFormed(msg)
  BY DEF WellFormed, Fits, FitsField, ItemOf, Reading
<1>2. ShapeNow' = ShapeNow
  BY DEF ShapeNow
<1> QED  BY <1>1, <1>2 DEF ShapeInv

(* The types of the record at hand.                                        *)
LEMMA ShapeTypes ==
    ASSUME IInv, ReadInv
    PROVE  /\ rr.type \in Nat /\ rr.fields \in Seq(Fields) /\ rr.data \in Seq(Item)
           /\ rr.cur \in Nat /\ rr.end \in Nat /\ rr.start \in Nat /\ rr.end <= Size /\ Size \in Nat
           /\ DOMAIN rr = {"name", "type", "start", "end", "cur", "fields", "data"}
           /\ rr.fields # <<>> => Head(rr.fields) \in Fields /\ rr.fields[1] = Head(rr.fields)
           /\ \A o \in Nat : o < Size => At(o) \in Nat
           /\ packet \in Seq(Nat) /\ msg \in Message /\ nm \in NameType
<1>1. rr.fields \in Seq(Fields) /\ packet \in Seq(Nat)
  BY DEF IInv, RecordOK, Guarded
<1>2. rr.fields # <<>> => Head(rr.fields) \in Fields /\ rr.fields[1] = Head(rr.fields)
  BY <1>1, HeadTailProperties, EmptySeq, LenProperties, ElementOfSeq
<1>3. Size \in Nat /\ \A o \in Nat : o < Size => At(o) \in Nat
  BY <1>1, CellType
<1> QED  BY <1>1, <1>2, <1>3 DEF IInv, RecordOK, ReadInv

(* A field that is not of TXT.                                             *)
LEMMA FieldsOfTXT ==
    ASSUME IInv, ReadInv, ShapeNow, rr.fields # <<>>
    PROVE  rr.type = TypeTXT <=> Head(rr.fields).op = "strings"
<1>1. CASE rr.type = TypeTXT
  <2>1. rr.fields = <<Strings>>
    BY <1>1 DEF ShapeNow, Shape
  <2> QED  BY <1>1, <2>1 DEF Strings
<1>2. CASE rr.type # TypeTXT
  <2>1. PICK k \in Nat : AtHand(RDataFields(rr.type), k, rr.fields, Tail(rr.fields), rr.data, rr.cur, rr.end)
    BY <1>2, ShapeTypes, FieldAtHand DEF ShapeNow
  <2> DEFINE f == RDataFields(rr.type)
  <2>2. Formed(f) /\ k + 1 \in 1 .. Len(f) /\ f[k + 1] = Head(rr.fields)
    BY <2>1 DEF AtHand
  <2> HIDE DEF f
  <2>3. f[k + 1].op # "strings"
    BY <2>2 DEF Formed
  <2> QED  BY <1>2, <2>2, <2>3
<1> QED  BY <1>1, <1>2

(* A field is read.                                                        *)
LEMMA ShapeTook ==
    ASSUME IInv, ReadInv, ShapeInv, ShapeNow, rr.fields # <<>>, UNCHANGED msg,
           NEW op \in {"numbers", "name", "counted", "rest"}, NEW value \in Seq(Nat), NEW to, Took(op, value, to),
           Head(rr.fields).op = op, op = "numbers" => Len(value) = Head(rr.fields).n,
           op = "rest" => rr.cur + Len(value) = rr.end
    PROVE  ShapeInv'
<1> DEFINE item == [op |-> op, value |-> value]
           d == Append(rr.data, item)
<1>1. item \in Item /\ item.op = op /\ item.value = value
  BY DEF Item, Text, Cell
<1> HIDE DEF item
<1>t. /\ rr.type \in Nat /\ rr.fields \in Seq(Fields) /\ rr.data \in Seq(Item)
      /\ rr.cur \in Nat /\ rr.end \in Nat
      /\ DOMAIN rr = {"name", "type", "start", "end", "cur", "fields", "data"}
  BY ShapeTypes
<1>2. rr' = [rr EXCEPT !.fields = Tail(@), !.cur = to, !.data = d]
  BY DEF Took, item
<1>3. rr'.type = rr.type /\ rr'.fields = Tail(rr.fields) /\ rr'.data = d /\ rr'.cur = to /\ rr'.end = rr.end
  <2> HIDE DEF d
  <2> QED  BY <1>t, <1>2
<1>4. rr.type # TypeTXT
  BY FieldsOfTXT
<1>5. Shape(rr.type, Tail(rr.fields), d, to, rr.end)
  <2>1. Shape(rr.type, rr.fields, rr.data, rr.cur, rr.end)
    BY DEF ShapeNow
  <2>2. Head(rr.fields).op \notin {"need", "exactly"} /\ item.op = Head(rr.fields).op
        /\ (item.op = "numbers" => Len(item.value) = Head(rr.fields).n)
        /\ (item.op = "rest" => rr.cur + Len(item.value) = rr.end)
    BY <1>1
  <2> QED  BY <1>1, <1>4, <1>t, <2>1, <2>2, ShapeRead
<1>6. ShapeNow'
  BY <1>3, <1>5 DEF ShapeNow
<1>7. WellFormed(msg)'
  BY DEF ShapeInv
<1> QED  BY <1>6, <1>7 DEF ShapeInv

-------------------------------------------------------------------------------

(* The steps over the fields of a record.                                  *)
LEMMA ShapeFields ==
    ASSUME IInv, ReadInv, ShapeInv, ShapeNow, parseRData
    PROVE  ShapeInv'
<1>t. /\ rr.type \in Nat /\ rr.fields \in Seq(Fields) /\ rr.data \in Seq(Item)
      /\ rr.cur \in Nat /\ rr.end \in Nat /\ rr.start \in Nat /\ rr.end <= Size /\ Size \in Nat
      /\ DOMAIN rr = {"name", "type", "start", "end", "cur", "fields", "data"}
      /\ rr.fields # <<>> => Head(rr.fields) \in Fields /\ rr.fields[1] = Head(rr.fields)
      /\ packet \in Seq(Nat) /\ msg \in Message /\ nm \in NameType
  BY ShapeTypes
<1>a. \A o \in Nat : o < Size => At(o) \in Nat
  BY ShapeTypes
<1>w. WellFormed(msg)
  BY DEF ShapeInv
<1>s. Shape(rr.type, rr.fields, rr.data, rr.cur, rr.end)
  BY DEF ShapeNow
<1>f. ASSUME EndRecord(FALSE)  PROVE ShapeInv'
  BY <1>f, <1>w, RecordAdded
<1>c. \A n \in Nat : rr.cur + n <= Size => Cells(rr.cur, rr.cur + n) \in Seq(Nat) /\ Len(Cells(rr.cur, rr.cur + n)) = n
  BY <1>t, CellsAre DEF Size
<1>1. CASE CheckLength
  <2>0. rr.fields # <<>> /\ Head(rr.fields).op \in {"need", "exactly"}
    BY <1>1 DEF CheckLength, AtField, Field
  <2>1. CASE Enough /\ rr' = [rr EXCEPT !.fields = Tail(@)] /\ UNCHANGED msg
    <3>1. rr'.type = rr.type /\ rr'.fields = Tail(rr.fields) /\ rr'.data = rr.data /\ rr'.cur = rr.cur /\ rr'.end = rr.end
      BY <1>t, <2>1
    <3>2. rr.type # TypeTXT
      BY <2>0, FieldsOfTXT
    <3>3. Head(rr.fields).op = "exactly" => rr.cur + Head(rr.fields).n = rr.end
      BY <2>1 DEF Enough, Field
    <3>4. Shape(rr.type, Tail(rr.fields), rr.data, rr.cur, rr.end)
      BY <1>s, <1>t, <2>0, <3>2, <3>3, ShapeLooked
    <3>5. ShapeNow'
      BY <3>1, <3>4 DEF ShapeNow
    <3> QED  BY <1>w, <2>1, <3>5 DEF ShapeInv
  <2> QED  BY <1>1, <1>f, <2>1 DEF CheckLength
<1>2. CASE ReadNumbers
  <2>0. rr.fields # <<>> /\ Head(rr.fields).op = "numbers" /\ UNCHANGED msg /\ Head(rr.fields).n \in Nat
    BY <1>2, <1>t DEF ReadNumbers, AtField, Field, Fields
  <2>1. rr.cur + Field.n <= Size /\ Took("numbers", Cells(rr.cur, rr.cur + Field.n), rr.cur + Field.n)
    <3>1. pc' # "panic"
      BY <1>2, Inductive DEF IInv, Next
    <3> QED  BY <1>2, <3>1 DEF ReadNumbers, Goto
  <2> DEFINE v == Cells(rr.cur, rr.cur + Head(rr.fields).n)
  <2>2. v \in Seq(Nat) /\ Len(v) = Head(rr.fields).n
    BY <1>c, <2>0, <2>1 DEF Field
  <2>3. Took("numbers", v, rr.cur + Field.n)
    BY <2>1 DEF Field
  <2> HIDE DEF v
  <2> QED  BY <2>0, <2>2, <2>3, ShapeTook
<1>3. CASE ReadName
  <2>1. UNCHANGED <<rr, msg>> /\ ReadingData
    BY <1>3 DEF ReadName, AtField, ReadingData
  <2> QED  BY <2>1, ShapeAlone
<1>4. CASE EndRDataName
  <2>0. rr.fields # <<>> /\ Head(rr.fields).op = "name" /\ UNCHANGED msg
    BY <1>4, <1>t DEF EndRDataName, IInv, InName
  <2>1. Join(nm.labels) \in Seq(Nat)
    <3>1. nm.labels \in LabelLists
      BY <1>t DEF NameType, LabelLists
    <3> QED  BY <3>1, JoinType
  <2>2. Took("name", Join(nm.labels), nm.next)
    BY <1>4 DEF EndRDataName
  <2> QED  BY <2>0, <2>1, <2>2, ShapeTook
<1>5. CASE ReadCounted
  <2>0. rr.fields # <<>> /\ Head(rr.fields).op = "counted"
    BY <1>5 DEF ReadCounted, AtField, Field
  <2>1. CASE rr.cur >= Size /\ Goto("panic")
    <3>1. pc' # "panic"
      BY <1>5, Inductive DEF IInv, Next
    <3> QED  BY <2>1, <3>1 DEF Goto
  <2>2. CASE /\ rr.cur < Size
             /\ rr.cur + 1 + At(rr.cur) <= rr.end
             /\ Took("counted", Cells(rr.cur + 1, rr.cur + 1 + At(rr.cur)), rr.cur + 1 + At(rr.cur))
             /\ UNCHANGED msg
    <3> DEFINE from == rr.cur + 1
               v == Cells(from, from + At(rr.cur))
    <3>1. At(rr.cur) \in Nat /\ from \in Nat /\ from + At(rr.cur) <= Len(packet)
      <4>1. At(rr.cur) \in Nat
        BY <1>a, <1>t, <2>2
      <4> QED  BY <1>t, <2>2, <4>1, SMTT(30) DEF Size
    <3>2. v \in Seq(Nat)
      <4> HIDE DEF from
      <4> QED  BY <1>t, <3>1, CellsAre
    <3>3. Took("counted", v, rr.cur + 1 + At(rr.cur))
      BY <2>2
    <3> HIDE DEF v
    <3> QED  BY <2>0, <2>2, <3>2, <3>3, ShapeTook
  <2> QED  BY <1>5, <1>f, <2>1, <2>2 DEF ReadCounted
<1>6. CASE ReadString
  <2>0. rr.fields # <<>> /\ Head(rr.fields).op = "strings" /\ rr.cur < rr.end
    BY <1>6 DEF ReadString, AtField, Field
  <2>1. rr.type = TypeTXT
    BY <2>0, FieldsOfTXT
  <2>2. CASE /\ rr' = [rr EXCEPT !.cur = StringEnd(@),
                       !.data = Append(@, [op |-> "counted", value |-> Cells(rr.cur + 1, StringEnd(rr.cur))])]
             /\ UNCHANGED msg
    <3> DEFINE item == [op |-> "counted", value |-> Cells(rr.cur + 1, StringEnd(rr.cur))]
               n == Len(rr.data)
    <3>1. item.op = "counted"
      OBVIOUS
    <3>2. rr' = [rr EXCEPT !.cur = StringEnd(@), !.data = Append(@, item)]
      BY <2>2
    <3> HIDE DEF item
    <3>3. rr'.type = rr.type /\ rr'.fields = rr.fields /\ rr'.data = Append(rr.data, item)
      BY <1>t, <3>2
    <3>4. n \in Nat /\ Len(rr'.data) = n + 1 /\ rr'.data[n + 1] = item /\ \A i \in 1 .. n : rr'.data[i] = rr.data[i]
      BY <1>t, <3>3
    <3> HIDE DEF n
    <3>5. \A i \in 1 .. n : rr.data[i].op = "counted"
      BY <1>s, <2>1 DEF Shape, n
    <3>6. \A i \in 1 .. n + 1 : i = n + 1 \/ i \in 1 .. n
      BY <3>4
    <3>7. \A i \in 1 .. Len(rr'.data) : rr'.data[i].op = "counted"
      BY <3>1, <3>4, <3>5, <3>6
    <3>8. rr'.fields \in {<<Strings>>, <<>>}
      BY <1>s, <2>1, <3>3 DEF Shape
    <3>9. ShapeNow'
      BY <2>1, <3>3, <3>7, <3>8 DEF ShapeNow, Shape
    <3> QED  BY <1>w, <2>2, <3>9 DEF ShapeInv
  <2> QED  BY <1>6, <1>f, <2>2 DEF ReadString
<1>7. CASE EndStrings
  <2>0. rr.fields # <<>> /\ Head(rr.fields).op = "strings" /\ rr' = [rr EXCEPT !.fields = Tail(@)] /\ UNCHANGED msg
    BY <1>7 DEF EndStrings, AtField, Field
  <2>1. rr.type = TypeTXT
    BY <2>0, FieldsOfTXT
  <2>2. rr.fields = <<Strings>> /\ \A i \in 1 .. Len(rr.data) : rr.data[i].op = "counted"
    BY <1>s, <2>0, <2>1 DEF Shape
  <2>3. Tail(<<Strings>>) = <<>>
    OBVIOUS
  <2>4. rr'.type = rr.type /\ rr'.fields = <<>> /\ rr'.data = rr.data
    BY <1>t, <2>0, <2>2, <2>3
  <2>5. ShapeNow'
    BY <2>1, <2>2, <2>4 DEF ShapeNow, Shape
  <2> QED  BY <1>w, <2>0, <2>5 DEF ShapeInv
<1>8. CASE ReadRest
  <2>0. rr.fields # <<>> /\ Head(rr.fields).op = "rest" /\ UNCHANGED msg
    BY <1>8 DEF ReadRest, AtField, Field
  <2>1. rr.cur <= rr.end /\ Took("rest", Cells(rr.cur, rr.end), rr.end)
    <3>1. pc' # "panic"
      BY <1>8, Inductive DEF IInv, Next
    <3> QED  BY <1>8, <3>1 DEF ReadRest, Goto
  <2>2. PICK n \in Nat : rr.cur + n = rr.end
    <3>1. rr.end - rr.cur \in Nat /\ rr.cur + (rr.end - rr.cur) = rr.end
      BY <1>t, <2>1
    <3> QED  BY <3>1
  <2>3. Cells(rr.cur, rr.end) \in Seq(Nat) /\ rr.cur + Len(Cells(rr.cur, rr.end)) = rr.end
    BY <1>c, <1>t, <2>2
  <2> QED  BY <2>0, <2>1, <2>3, ShapeTook
<1>9. CASE EndFields
  <2>1. rr.fields = <<>> /\ EndRecord(TRUE)
    BY <1>9 DEF EndFields
  <2>2. Fits(rr.type, rr.data)
    BY <1>s, <1>t, <2>1, ShapeEnds
  <2> QED  BY <1>w, <2>1, <2>2, RecordAdded
<1> QED  BY <1>1, <1>2, <1>3, <1>4, <1>5, <1>6, <1>7, <1>8, <1>9 DEF parseRData

(* Every step of the decoder keeps the form of the data.                   *)
LEMMA ShapeStep == IInv /\ ReadInv /\ ShapeInv /\ [Next]_vars => ShapeInv'
<1> SUFFICES ASSUME IInv, ReadInv, ShapeInv, [Next]_vars  PROVE ShapeInv'
  OBVIOUS
<1>t. nm \in NameType /\ DOMAIN nm = {"user", "curr", "next", "labels", "visited", "jumps"}
  BY DEF IInv, NameType
<1>1. CASE UNCHANGED vars
  BY <1>1, ShapeAlone DEF vars, ReadingData, InName
<1>2. CASE DecodeHeader \/ Finish
  <2>1. UNCHANGED <<rr, msg>> /\ pc' \in {"error", "done", "section"}
    BY <1>2 DEF DecodeHeader, Finish, Goto
  <2> QED  BY <2>1, ShapeAlone DEF ReadingData, InName
<1>3. CASE NextQuestion \/ NextRecord
  <2>1. UNCHANGED <<rr, msg>> /\ pc' # "field" /\ nm'.user # "rdata"
    BY <1>3 DEF NextQuestion, NextRecord, CallName, Goto, NoName
  <2> QED  BY <2>1, ShapeAlone DEF ReadingData
<1>4. CASE FollowPointer \/ ReadLabel \/ NameEnds \/ NameFails
  <2>1. UNCHANGED <<rr, msg>> /\ pc = "name" /\ pc' # "field" /\ nm'.user = nm.user
    BY <1>4, <1>t DEF FollowPointer, Jumped, ReadLabel, NameEnds, NameFails, Goto
  <2> QED  BY <2>1, ShapeAlone DEF ReadingData, InName
<1>5. CASE BadName
  <2>1. CASE UNCHANGED <<rr, msg>> /\ pc' = "error"
    BY <2>1, ShapeAlone DEF ReadingData, InName
  <2>2. CASE EndRecord(FALSE)
    BY <2>2, RecordAdded DEF ShapeInv
  <2> QED  BY <1>5, <2>1, <2>2 DEF BadName, Goto
<1>6. CASE EndQuestion
  <2>1. pc' \in {"error", "section"} /\ msg'.records = msg.records
    BY <1>6 DEF EndQuestion, Goto, ReadInv, Message
  <2> QED  BY <2>1 DEF ShapeInv, ReadingData, InName, WellFormed
<1>7. CASE StartRecord
  <2>1. CASE pc' = "error" /\ UNCHANGED <<rr, msg>>
    BY <2>1, ShapeAlone DEF ReadingData, InName
  <2>2. CASE /\ rr' = [name |-> Join(nm.labels), type |-> At(nm.next), start |-> nm.next + RecordFixed,
                       end |-> nm.next + RecordFixed + At(nm.next + 1), cur |-> nm.next + RecordFixed,
                       fields |-> RDataFields(At(nm.next)), data |-> <<>>]
             /\ UNCHANGED msg /\ nm.next + RecordFixed <= Size
    <3>1. At(nm.next) \in Nat
      <4>1. nm.next \in Nat /\ packet \in Seq(Nat)
        BY <1>7 DEF StartRecord, IInv
      <4>2. nm.next < Size
        BY <2>2, <4>1, CellType DEF RecordFixed
      <4> QED  BY <4>1, <4>2, CellType
    <3>2. rr'.type = At(nm.next) /\ rr'.fields = RDataFields(At(nm.next)) /\ rr'.data = <<>>
      BY <2>2
    <3>3. ShapeNow'
      BY <3>1, <3>2, ShapeStarts DEF ShapeNow
    <3> QED  BY <2>2, <3>3 DEF ShapeInv
  <2> QED  BY <1>7, <2>1, <2>2 DEF StartRecord, Goto
<1>8. CASE parseRData
  <2>1. ReadingData
    BY <1>8 DEF parseRData, CheckLength, ReadNumbers, ReadName, EndRDataName, ReadCounted, ReadString, EndStrings,
          ReadRest, EndFields, AtField, ReadingData, InName
  <2> QED  BY <1>8, <2>1, ShapeFields DEF ShapeInv
<1> QED  BY <1>1, <1>2, <1>3, <1>4, <1>5, <1>6, <1>7, <1>8 DEF Next, decodeName

-------------------------------------------------------------------------------

(* decodeName within what was written of a name with labels like L: those  *)
(* read so far and T, which is to be read at curr, are alike; every        *)
(* pointer led before the name it stands in, to a label.                   *)
NameAt(N, L, e, T, base, q) ==
    /\ Reads(packet, N, nm.curr, T, base, q)
    /\ SameLabels(L, nm.labels \o T)
    /\ IF nm.next = -1 THEN q = e ELSE nm.next = e
    /\ \A v \in nm.visited : base <= v
    /\ nm.jumps <= Len(nm.labels) \/ [at |-> nm.curr, labels |-> T, base |-> base, end |-> q] \in N
    /\ nm.jumps <= Len(nm.labels) + 1

NameProgress(N, text, e) ==
    /\ pc # "badname"
    /\ pc = "name" => \E T \in LabelLists, base \in Nat, q \in Nat : NameAt(N, SplitQName(text), e, T, base, q)
    /\ pc = "named" => SameLabels(SplitQName(text), nm.labels) /\ nm.next = e

(* What is known within a name.                                            *)
Walking(N, L, e, T, base, q) ==
    /\ IInv /\ pc = "name" /\ NamesOK(packet, N) /\ L \in LabelLists /\ Writable(L)
    /\ e \in Nat /\ T \in LabelLists /\ base \in Nat /\ q \in Nat /\ NameAt(N, L, e, T, base, q)

(* A step of decodeName within a name.                                     *)
NameStep == FollowPointer \/ ReadLabel \/ NameEnds \/ NameFails

(* What is known on the way.                                               *)
LEMMA WalkingIs ==
    ASSUME NEW N, NEW L, NEW e, NEW T, NEW base, NEW q, Walking(N, L, e, T, base, q)
    PROVE  /\ nm.curr \in Nat /\ nm.labels \in LabelLists /\ nm.jumps \in Nat /\ nm.visited \subseteq Nat
           /\ nm.next \in Nat \cup {-1} /\ packet \in Seq(Nat) /\ Size \in Nat /\ Len(packet) = Size
           /\ DOMAIN nm = {"user", "curr", "next", "labels", "visited", "jumps"}
           /\ Len(nm.labels) \in Nat /\ Len(T) \in Nat /\ Len(nm.labels) + Len(T) <= MaxLabels
           /\ MaxLabels \in Nat /\ nm.labels \o T \in LabelLists
<1>1. /\ nm.curr \in Nat /\ nm.labels \in LabelLists /\ nm.jumps \in Nat /\ nm.visited \subseteq Nat
      /\ nm.next \in Nat \cup {-1} /\ packet \in Seq(Nat)
      /\ DOMAIN nm = {"user", "curr", "next", "labels", "visited", "jumps"}
  BY DEF Walking, IInv, NameType, LabelLists
<1>2. T \in LabelLists /\ SameLabels(L, nm.labels \o T) /\ Writable(L)
  BY DEF Walking, NameAt
<1>3. nm.labels \o T \in LabelLists /\ Len(nm.labels \o T) = Len(nm.labels) + Len(T)
  BY <1>1, <1>2, ConcatProperties DEF LabelLists
<1>4. Len(L) = Len(nm.labels \o T) /\ Len(L) <= MaxLabels
  BY <1>2 DEF SameLabels, Writable
<1>5. Size \in Nat /\ Len(packet) = Size
  BY <1>1, CellType DEF Size
<1>6. MaxLabels \in Nat
  BY WireAssumption
<1> QED  BY <1>1, <1>2, <1>3, <1>4, <1>5, <1>6, LabelListTypes

(* The root is read.                                                       *)
LEMMA RootIsRead ==
    ASSUME NEW N, NEW L, NEW e, NEW T, NEW base, NEW q, Walking(N, L, e, T, base, q), NameStep,
           T = <<>>, packet[nm.curr + 1] = 0, q = nm.curr + 1, q <= Len(packet)
    PROVE  NameEnds /\ nm'.labels = nm.labels /\ SameLabels(L, nm.labels) /\ nm'.next = e
<1>1. /\ nm.curr \in Nat /\ nm.labels \in LabelLists /\ Size \in Nat /\ Len(packet) = Size
      /\ nm.next \in Nat \cup {-1} /\ DOMAIN nm = {"user", "curr", "next", "labels", "visited", "jumps"}
  BY WalkingIs
<1>2. Octet = 0 /\ nm.curr < Size
  BY <1>1 DEF Octet, At
<1>3. SameLabels(L, nm.labels) /\ L \in LabelLists /\ Writable(L)
  <2>1. nm.labels \o <<>> = nm.labels
    BY <1>1, ConcatEmptySeq DEF LabelLists
  <2> QED  BY <2>1 DEF Walking, NameAt
<1>4. TextLength(nm.labels) <= MaxNameLength
  <2>1. Alike(Dotted(L), Dotted(nm.labels))
    BY <1>1, <1>3, DottedSame
  <2>2. TextLength(L) = Len(Dotted(L)) + 1 /\ TextLength(nm.labels) = Len(Dotted(nm.labels)) + 1
    BY DEF TextLength, Dotted
  <2> QED  BY <1>3, <2>1, <2>2 DEF Alike, Writable
<1>5. GoodEnd /\ ~GoodPointer /\ ~GoodLabel
  BY <1>2, <1>4 DEF GoodEnd, GoodPointer, GoodLabel, MaxLabelLength
<1>6. NameEnds
  BY <1>2, <1>5 DEF NameStep, FollowPointer, ReadLabel, NameFails
<1>7. NextAfter(1) = e
  BY <1>1 DEF NextAfter, Walking, NameAt
<1>8. nm' = [nm EXCEPT !.next = NextAfter(1)]
  BY <1>6 DEF NameEnds
<1> QED  BY <1>1, <1>3, <1>6, <1>7, <1>8

(* A label goes from the front of one list to the end of another.          *)
LEMMA LabelMoved ==
    ASSUME NEW A \in LabelLists, NEW T \in LabelLists, T # <<>>
    PROVE  Append(A, T[1]) \o Tail(T) = A \o T /\ Len(Append(A, T[1])) = Len(A) + 1
<1> DEFINE l == T[1]
           t == Tail(T)
<1>1. A \in Seq(Seq(Nat)) /\ t \in Seq(Seq(Nat)) /\ l \in Seq(Nat)
  <2>1. Head(T) = l /\ Head(T) \in Seq(Nat) /\ Tail(T) \in Seq(Seq(Nat))
    BY HeadTailProperties DEF LabelLists
  <2> QED  BY <2>1 DEF LabelLists
<1>2. T = <<l>> \o t
  <2>1. T \in Seq(Seq(Nat))
    BY DEF LabelLists
  <2>2. /\ Len(T) \in Nat /\ Len(T) > 0 /\ Len(t) = Len(T) - 1 /\ \A i \in 1 .. Len(T) - 1 : t[i] = T[i + 1]
    BY <2>1, HeadTailProperties, EmptySeq, LenProperties
  <2> HIDE DEF t
  <2> DEFINE o == <<l>>
             u == o \o t
  <2>3. o \in Seq(Seq(Nat)) /\ Len(o) = 1 /\ o[1] = l
    BY <1>1
  <2> HIDE DEF o
  <2>4. /\ u \in Seq(Seq(Nat)) /\ Len(u) = 1 + Len(t)
        /\ \A i \in 1 .. 1 + Len(t) : u[i] = IF i <= 1 THEN o[i] ELSE t[i - 1]
    BY <1>1, <2>3, ConcatProperties
  <2> HIDE DEF u
  <2>5. ASSUME NEW i \in 1 .. Len(T)  PROVE u[i] = T[i]
    <3>1. CASE i = 1
      <4>1. 1 \in 1 .. 1 + Len(t) /\ 1 <= 1
        BY <2>2
      <4>2. u[1] = o[1]
        BY <2>4, <4>1
      <4> QED  BY <2>3, <3>1, <4>2 DEF l
    <3>2. CASE i > 1
      <4>1. i \in 1 .. 1 + Len(t) /\ ~(i <= 1) /\ i - 1 \in 1 .. Len(T) - 1 /\ (i - 1) + 1 = i
        BY <2>2, <3>2
      <4>2. u[i] = t[i - 1]
        BY <2>4, <4>1
      <4>3. t[i - 1] = T[i]
        BY <2>2, <4>1
      <4> QED  BY <4>2, <4>3
    <3> QED  BY <2>2, <3>1, <3>2
  <2>6. Len(u) = Len(T)
    BY <2>2, <2>4
  <2>7. u = T
    BY <2>1, <2>4, <2>5, <2>6, SeqEqual
  <2> QED  BY <2>7 DEF u, o
<1> HIDE DEF l, t
<1>3. <<l>> \in Seq(Seq(Nat))
  BY <1>1
<1>4. Append(A, l) = A \o <<l>> /\ Len(Append(A, l)) = Len(A) + 1
  BY <1>1, AppendIsConcat, AppendProperties
<1>5. (A \o <<l>>) \o t = A \o (<<l>> \o t)
  <2> DEFINE o == <<l>>
  <2> HIDE DEF o
  <2>1. o \in Seq(Seq(Nat))
    BY <1>3 DEF o
  <2>2. (A \o o) \o t = A \o (o \o t)
    BY <1>1, <2>1, ConcatAssociative, SMTT(30)
  <2> QED  BY <2>2 DEF o
<1> QED  BY <1>2, <1>4, <1>5 DEF l, t

(* A label is read.                                                        *)
LEMMA LabelIsRead ==
    ASSUME NEW N, NEW L, NEW e, NEW T, NEW base, NEW q, Walking(N, L, e, T, base, q), NameStep, UNCHANGED packet,
           [at |-> nm.curr, labels |-> T, base |-> base, end |-> q] \in N
    PROVE  ReadLabel /\ Tail(T) \in LabelLists /\ NameAt(N, L, e, Tail(T), base, q)'
<1>1. /\ nm.curr \in Nat /\ nm.labels \in LabelLists /\ nm.jumps \in Nat /\ nm.visited \subseteq Nat
      /\ nm.next \in Nat \cup {-1} /\ packet \in Seq(Nat) /\ Size \in Nat /\ Len(packet) = Size
      /\ DOMAIN nm = {"user", "curr", "next", "labels", "visited", "jumps"}
      /\ Len(nm.labels) \in Nat /\ Len(T) \in Nat /\ Len(nm.labels) + Len(T) <= MaxLabels
      /\ MaxLabels \in Nat
  BY WalkingIs
<1>0. /\ T \in LabelLists /\ base \in Nat /\ q \in Nat
  BY DEF Walking
<1> DEFINE n == [at |-> nm.curr, labels |-> T, base |-> base, end |-> q]
           l == T[1]
<1>2. EntryOK(packet, N, n)
  BY DEF Walking, NamesOK
<1>3. /\ T # <<>> /\ Len(l) \in 1 .. 63
      /\ (nm.curr + 1) + Len(l) < q /\ q <= Len(packet)
      /\ packet[nm.curr + 1] = Len(l)
      /\ \A i \in 1 .. Len(l) : packet[(nm.curr + 1) + i] = l[i]
      /\ Reads(packet, N, (nm.curr + 1) + Len(l), Tail(T), base, q)
  BY <1>2 DEF EntryOK, MaxLabelLength
<1>4. Len(T) # 0 /\ l \in Seq(Nat) /\ Tail(T) \in LabelLists /\ Len(Tail(T)) = Len(T) - 1
  <2>1. Len(T) # 0
    BY <1>0, <1>3, LabelListTypes
  <2>2. 1 \in 1 .. Len(T)
    BY <1>1, <2>1
  <2>3. l \in Seq(Nat)
    BY <1>0, <2>2, LabelListTypes
  <2>4. Tail(T) \in LabelLists /\ Len(Tail(T)) = Len(T) - 1
    BY <1>0, <1>3, HeadTailProperties DEF LabelLists
  <2> QED  BY <2>1, <2>3, <2>4
<1> HIDE DEF n, l
<1>5. Octet = Len(l) /\ nm.curr < Size /\ nm.curr + 1 + Octet <= Size /\ Len(nm.labels) < MaxLabels /\ Octet \in 1 .. 63
  <2>1. Octet = Len(l)
    BY <1>3 DEF Octet, At
  <2>2. \A c, o, r, z, a, t, b \in Nat : (c + 1) + o < r /\ r <= z => c < z /\ c + 1 + o <= z
    OBVIOUS
  <2>3. \A a, t, b \in Nat : a + t <= b /\ t # 0 => a < b
    OBVIOUS
  <2>4. Len(nm.labels) < MaxLabels
    BY <1>1, <1>4, <2>3
  <2>5. Len(l) \in Nat
    BY <1>3
  <2>6. nm.curr < Size /\ nm.curr + 1 + Len(l) <= Size
    BY <1>0, <1>1, <1>3, <2>2, <2>5
  <2> QED  BY <1>3, <2>1, <2>4, <2>6
<1>6. GoodLabel /\ ~GoodPointer /\ ~GoodEnd
  <2>1. \A o \in 1 .. 63 : o \div 64 # 3 /\ o # 0
    OBVIOUS
  <2> QED  BY <1>5, <2>1 DEF GoodLabel, GoodPointer, GoodEnd, MaxLabelLength
<1>7. ReadLabel
  BY <1>5, <1>6 DEF NameStep, FollowPointer, NameEnds, NameFails
<1> DEFINE from == nm.curr + 1
<1>8. Cells(from, from + Len(l)) = l
  <2>1. from \in Nat /\ Len(l) \in Nat /\ from + Len(l) <= Len(packet)
    BY <1>1, <1>5
  <2>2. \A i \in 1 .. Len(l) : packet[from + i] = l[i]
    BY <1>3
  <2> HIDE DEF from
  <2> DEFINE c == Cells(from, from + Len(l))
  <2>3. c \in Seq(Nat) /\ Len(c) = Len(l) /\ \A i \in 1 .. Len(l) : c[i] = packet[from + i]
    BY <1>1, <2>1, CellsAre
  <2> HIDE DEF c
  <2>4. c = l
    BY <1>4, <2>2, <2>3, SeqEqual
  <2> QED  BY <2>4 DEF c
<1>9. nm' = [nm EXCEPT !.labels = Append(@, l), !.curr = from + Len(l)]
  BY <1>5, <1>7, <1>8 DEF ReadLabel
<1>10. /\ nm'.curr = from + Len(l) /\ nm'.labels = Append(nm.labels, l)
       /\ nm'.next = nm.next /\ nm'.visited = nm.visited /\ nm'.jumps = nm.jumps
  BY <1>1, <1>9
<1>11. Append(nm.labels, l) \o Tail(T) = nm.labels \o T /\ Len(Append(nm.labels, l)) = Len(nm.labels) + 1
  BY <1>0, <1>1, <1>3, LabelMoved DEF l
<1>12. /\ SameLabels(L, nm.labels \o T) /\ (IF nm.next = -1 THEN q = e ELSE nm.next = e)
       /\ (\A v \in nm.visited : base <= v) /\ nm.jumps <= Len(nm.labels) + 1
  BY DEF Walking, NameAt
<1>13. nm.jumps <= Len(Append(nm.labels, l)) /\ nm.jumps <= Len(Append(nm.labels, l)) + 1
  BY <1>1, <1>11, <1>12
<1>14. Reads(packet, N, from + Len(l), Tail(T), base, q)
  BY <1>3 DEF l
<1> HIDE DEF from
<1>15. NameAt(N, L, e, Tail(T), base, q)'
  BY <1>10, <1>11, <1>12, <1>13, <1>14 DEF NameAt
<1> QED  BY <1>4, <1>7, <1>15

-------------------------------------------------------------------------------

(* A pointer is followed.                                                  *)
LEMMA PointerIsRead ==
    ASSUME NEW N, NEW L, NEW e, NEW T, NEW base, NEW q, Walking(N, L, e, T, base, q), NameStep, UNCHANGED packet,
           T # <<>>, q = nm.curr + 2, q <= Len(packet),
           NEW t \in N, t.labels = T, t.at < base, t.at <= MaxPointer,
           packet[nm.curr + 1] = 192 + t.at \div 256, packet[nm.curr + 2] = t.at % 256
    PROVE  FollowPointer /\ t.base \in Nat /\ t.end \in Nat /\ NameAt(N, L, e, T, t.base, t.end)'
<1>1. /\ nm.curr \in Nat /\ nm.labels \in LabelLists /\ nm.jumps \in Nat /\ nm.visited \subseteq Nat
      /\ nm.next \in Nat \cup {-1} /\ packet \in Seq(Nat) /\ Size \in Nat /\ Len(packet) = Size
      /\ DOMAIN nm = {"user", "curr", "next", "labels", "visited", "jumps"}
      /\ Len(nm.labels) \in Nat /\ Len(T) \in Nat /\ Len(nm.labels) + Len(T) <= MaxLabels
      /\ MaxLabels \in Nat
  BY WalkingIs
<1>0. T \in LabelLists /\ base \in Nat /\ q \in Nat /\ N \subseteq Entry /\ \A n \in N : EntryOK(packet, N, n)
  BY DEF Walking, NamesOK
<1>2. /\ t.at \in Nat /\ t.base \in Nat /\ t.end \in Nat
      /\ t = [at |-> t.at, labels |-> T, base |-> t.base, end |-> t.end]
  BY <1>0 DEF Entry
<1>3. t.base <= t.at /\ t.at < t.end /\ t.end <= Size
  <2> DEFINE l == Len(t.labels[1])
  <2>1. l \in 1 .. 63 /\ t.base <= t.at /\ (t.at + 1) + l < t.end /\ t.end <= Size
    BY <1>0, <1>1 DEF EntryOK, MaxLabelLength
  <2> HIDE DEF l
  <2>2. \A a, b, c \in Nat : (a + 1) + c < b => a < b
    OBVIOUS
  <2>3. l \in Nat
    <3>1. \A i \in 1 .. 63 : i \in Nat
      OBVIOUS
    <3> QED  BY <2>1, <3>1, Zenon
  <2> QED  BY <1>2, <2>1, <2>2, <2>3
<1>4. Octet = 192 + t.at \div 256 /\ At(nm.curr + 1) = t.at % 256
  <2>1. (nm.curr + 1) + 1 = nm.curr + 2
    BY <1>1
  <2> QED  BY <2>1 DEF Octet, At
<1>5. Octet \div 64 = 3 /\ PointerTarget = t.at /\ Octet \in Nat
  <2>1. /\ 192 + t.at \div 256 \in Nat
        /\ (192 + t.at \div 256) \div 64 = 3 /\ ((192 + t.at \div 256) % 64) * 256 + (t.at % 256) = t.at
    BY <1>2, PointerIs
  <2>2. PointerTarget = ((192 + t.at \div 256) % 64) * 256 + (t.at % 256)
    BY <1>4, Zenon DEF PointerTarget
  <2> QED  BY <1>4, <2>1, <2>2, Zenon
<1>6. ~([at |-> nm.curr, labels |-> T, base |-> base, end |-> q] \in N)
  <2> DEFINE n == [at |-> nm.curr, labels |-> T, base |-> base, end |-> q]
  <2>1. ASSUME n \in N  PROVE FALSE
    <3>1. EntryOK(packet, N, n)
      BY <1>0, <2>1
    <3>2. packet[nm.curr + 1] = Len(T[1]) /\ Len(T[1]) \in 1 .. 63
      BY <3>1 DEF EntryOK, MaxLabelLength
    <3>3. \A o \in 1 .. 63 : o \div 64 # 3
      OBVIOUS
    <3>4. Octet \in 1 .. 63
      BY <3>2 DEF Octet, At
    <3> QED  BY <1>5, <3>3, <3>4
  <2> QED  BY <2>1
<1>7. /\ SameLabels(L, nm.labels \o T) /\ (IF nm.next = -1 THEN q = e ELSE nm.next = e)
      /\ (\A v \in nm.visited : base <= v) /\ nm.jumps <= Len(nm.labels)
  BY <1>6 DEF Walking, NameAt
<1>8. GoodPointer /\ ~GoodLabel /\ ~GoodEnd /\ nm.curr < Size
  <2>1. nm.curr + 1 < Size /\ nm.curr < Size
    <3>1. \A a, b \in Nat : a + 2 <= b => a + 1 < b /\ a < b
      OBVIOUS
    <3> QED  BY <1>1, <3>1
  <2>2. PointerTarget < Size
    BY <1>1, <1>2, <1>3, <1>5, SMTT(30)
  <2>3. PointerTarget \notin nm.visited
    BY <1>0, <1>1, <1>2, <1>5, <1>7, SMTT(30)
  <2>4. nm.jumps < MaxLabels
    <3>1. Len(T) # 0
      BY <1>0, LabelListTypes
    <3> QED  BY <1>1, <1>7, <3>1
  <2>5. Octet \notin 1 .. 63 /\ Octet # 0
    <3>1. \A o \in 0 .. 63 : o \div 64 # 3
      OBVIOUS
    <3> QED  BY <1>5, <3>1
  <2> QED  BY <1>5, <2>1, <2>2, <2>3, <2>4, <2>5 DEF GoodPointer, GoodLabel, GoodEnd, MaxLabelLength
<1>9. FollowPointer
  BY <1>8 DEF NameStep, ReadLabel, NameEnds, NameFails
<1>10. nm' = [nm EXCEPT !.visited = @ \cup {t.at}, !.next = NextAfter(2), !.curr = t.at, !.jumps = @ + 1]
  BY <1>5, <1>9 DEF FollowPointer, Jumped
<1>11. NextAfter(2) = e
  BY <1>1, <1>7 DEF NextAfter
<1>12. /\ nm'.curr = t.at /\ nm'.labels = nm.labels
       /\ nm'.next = e /\ nm'.visited = nm.visited \cup {t.at} /\ nm'.jumps = nm.jumps + 1
  BY <1>1, <1>10, <1>11
<1>13. e # -1
  BY <1>1, <1>9, <1>11 DEF NextAfter
<1>14. \A v \in nm.visited \cup {t.at} : t.base <= v
  <2> SUFFICES ASSUME NEW v \in nm.visited \cup {t.at}  PROVE t.base <= v
    OBVIOUS
  <2>1. CASE v = t.at
    BY <1>3, <2>1
  <2>2. CASE v \in nm.visited
    <3>1. base <= v /\ v \in Nat
      BY <1>1, <1>7, <2>2
    <3> QED  BY <1>0, <1>2, <1>3, <3>1
  <2> QED  BY <2>1, <2>2
<1>15. nm.jumps + 1 <= Len(nm.labels) + 1
  BY <1>1, <1>7
<1>16. [at |-> t.at, labels |-> T, base |-> t.base, end |-> t.end] \in N
  BY <1>2
<1>17. Reads(packet, N, t.at, T, t.base, t.end)
  BY <1>1, <1>3, <1>16 DEF Reads
<1>18. NameAt(N, L, e, T, t.base, t.end)'
  BY <1>7, <1>12, <1>13, <1>14, <1>15, <1>16, <1>17 DEF NameAt
<1> QED  BY <1>2, <1>9, <1>18

(* decodeName reads what was written of a name, to its end.                *)
LEMMA NameMoves ==
    ASSUME NEW N, NEW text \in Seq(Nat), NEW e \in Nat, IInv, NamesOK(packet, N), Writable(SplitQName(text)),
           pc = "name", NameProgress(N, text, e), NameStep
    PROVE  /\ NameProgress(N, text, e)' /\ pc' \in {"name", "named"} /\ nm'.user = nm.user
           /\ UNCHANGED <<packet, off, left, rr, msg>>
<1> DEFINE L == SplitQName(text)
<1>0. L \in LabelLists
  BY SplitQNameIs DEF LabelLists
<1>1. PICK T \in LabelLists, base \in Nat, q \in Nat : NameAt(N, L, e, T, base, q)
  BY DEF NameProgress
<1>2. UNCHANGED <<packet, off, left, rr, msg>>
  BY DEF NameStep, FollowPointer, ReadLabel, NameEnds, NameFails
<1>3. Walking(N, L, e, T, base, q) /\ Writable(L)
  BY <1>0, <1>1 DEF Walking
<1>4. DOMAIN nm = {"user", "curr", "next", "labels", "visited", "jumps"}
  BY DEF IInv, NameType
<1>5. Reads(packet, N, nm.curr, T, base, q)
  BY <1>1 DEF NameAt
<1> HIDE DEF L
<1>6. CASE T = <<>> /\ packet[nm.curr + 1] = 0 /\ q = nm.curr + 1
  <2>1. NameEnds /\ nm'.labels = nm.labels /\ SameLabels(L, nm.labels) /\ nm'.next = e
    BY <1>3, <1>5, <1>6, RootIsRead DEF Reads
  <2>2. pc' = "named" /\ nm'.user = nm.user
    BY <1>4, <2>1 DEF NameEnds, Goto
  <2> QED  BY <1>2, <2>1, <2>2 DEF NameProgress, L
<1>7. CASE [at |-> nm.curr, labels |-> T, base |-> base, end |-> q] \in N
  <2>1. ReadLabel /\ Tail(T) \in LabelLists /\ NameAt(N, L, e, Tail(T), base, q)'
    BY <1>2, <1>3, <1>7, LabelIsRead
  <2>2. pc' = "name" /\ nm'.user = nm.user
    BY <1>4, <2>1 DEF ReadLabel
  <2> QED  BY <1>2, <2>1, <2>2 DEF NameProgress, L
<1>8. CASE /\ T # <<>> /\ q = nm.curr + 2
           /\ \E t \in N : /\ t.labels = T /\ t.at < base /\ t.at <= MaxPointer
                           /\ packet[nm.curr + 1] = 192 + t.at \div 256 /\ packet[nm.curr + 2] = t.at % 256
  <2>1. PICK t \in N : /\ t.labels = T /\ t.at < base /\ t.at <= MaxPointer
                       /\ packet[nm.curr + 1] = 192 + t.at \div 256 /\ packet[nm.curr + 2] = t.at % 256
    BY <1>8
  <2>2. FollowPointer /\ t.base \in Nat /\ t.end \in Nat /\ NameAt(N, L, e, T, t.base, t.end)'
    <3>1. q <= Len(packet)
      BY <1>5 DEF Reads
    <3> QED  BY <1>2, <1>3, <1>8, <2>1, <3>1, PointerIsRead
  <2>3. pc' = "name" /\ nm'.user = nm.user
    BY <1>4, <2>2 DEF FollowPointer, Jumped
  <2> QED  BY <1>2, <2>2, <2>3 DEF NameProgress, L
<1> QED  BY <1>5, <1>6, <1>7, <1>8 DEF Reads

(* decodeName is called for a name that was written.                       *)
LEMMA NameCalled ==
    ASSUME NEW N, NEW text \in Seq(Nat), NEW p \in Nat, NEW e \in Nat, NEW user, packet \in Seq(Nat), UNCHANGED packet,
           NamedAt(packet, N, p, text, e), CallName(user, p)
    PROVE  NameProgress(N, text, e)' /\ pc' = "name" /\ nm'.user = user
<1> DEFINE L == SplitQName(text)
<1>1. PICK G \in LabelLists : SameLabels(L, G) /\ Reads(packet, N, p, G, p, e)
  BY DEF NamedAt
<1>2. e <= Len(packet) /\ p < e /\ Size = Len(packet) /\ Size \in Nat
  BY <1>1, CellType DEF NamedAt, Reads, Size
<1>3. /\ pc' = "name" /\ nm'.user = user /\ nm'.curr = p /\ nm'.next = -1 /\ nm'.labels = <<>>
      /\ nm'.visited = {} /\ nm'.jumps = 0
  BY <1>2 DEF CallName, Goto, NoName
<1>4. <<>> \o G = G
  BY <1>1, ConcatEmptySeq DEF LabelLists
<1>5. 0 <= Len(<<>>) /\ 0 <= Len(<<>>) + 1
  BY TextTypes
<1> HIDE DEF L
<1>6. NameAt(N, L, e, G, p, e)'
  BY <1>1, <1>3, <1>4, <1>5 DEF NameAt
<1> QED  BY <1>1, <1>3, <1>6 DEF NameProgress, L

(* What was read is the name that was written, in another case at most.    *)
LEMMA NameIsRead ==
    ASSUME NEW text \in Seq(Nat), NEW G \in LabelLists, SameLabels(SplitQName(text), G)
    PROVE  SameName(text, Join(G))
<1> DEFINE L == SplitQName(text)
<1>0. L \in LabelLists
  BY SplitQNameIs DEF LabelLists
<1>1. SameLabels(L, G) /\ Len(L) = Len(G)
  BY DEF SameLabels
<1> HIDE DEF L
<1>2. Alike(Dotted(L), Dotted(G))
  BY <1>0, <1>1, DottedSame
<1>3. Dotted(L) \in Seq(Nat) /\ Dotted(G) \in Seq(Nat)
  BY <1>0, DottedNext
<1>4. FoldCase(Dotted(L)) = FoldCase(Dotted(G))
  BY <1>2, <1>3, FoldIsAlike
<1>5. L = <<>> <=> G = <<>>
  BY <1>0, <1>1, LabelListTypes
<1>6. FoldCase(Join(L)) = FoldCase(Join(G))
  <2>1. CASE L = <<>>
    BY <1>5, <2>1
  <2>2. CASE L # <<>>
    <3>1. Join(L) = Dotted(L) /\ Join(G) = Dotted(G)
      BY <1>5, <2>2 DEF Join, Dotted
    <3> QED  BY <1>4, <3>1
  <2> QED  BY <2>1, <2>2
<1>7. ~BlankEnds(text) => Join(L) = Qualified(text)
  BY NameIsKept DEF L
<1> QED  BY <1>6, <1>7 DEF SameName

-------------------------------------------------------------------------------

(* Questions and records that count as the same.                           *)
SameQuestion(old, got) == old.type = got.type /\ SameName(old.name, got.name)
SameRecord(old, got) == old.type = got.type /\ SameName(old.name, got.name) /\ SameData(old, got)

(* A message as it lies in a packet that Encode wrote.                     *)
Whole(buf, N, m, s) ==
    LET nq == Len(m.questions)
        nr == Len(m.records)
    IN  /\ NamesOK(buf, N) /\ PartsAt(buf, N, m, nq + nr, s) /\ s[(nq + nr) + 1] = Len(buf)
        /\ 2 <= Len(buf) /\ Len(buf) <= MaxPacketLen /\ buf[1] = nq /\ buf[2] = nr
        /\ WellFormed(m)

(* What has been read (g) of a message (m) is the same, and l is left, but *)
(* for a question (a = 1) or a record (b = 1) at hand.                     *)
SoFar(m, g, l, a, b) ==
    LET nq == Len(m.questions)
        nr == Len(m.records)
        q == Len(g.questions)
        r == Len(g.records)
    IN  /\ (q + a) + l.questions = nq /\ (r + b) + l.records = nr
        /\ r + b > 0 => q = nq
        /\ \A i \in 1 .. q : SameQuestion(m.questions[i], g.questions[i])
        /\ \A i \in 1 .. r : SameRecord(m.records[i], g.records[i])

(* How many parts were read, and the question or record that is next.      *)
Done(g) == Len(g.questions) + Len(g.records)
NextQ(m, g) == m.questions[Len(g.questions) + 1]
NextR(m, g) == m.records[Len(g.records) + 1]

(* The types of the parts of a message.                                    *)
LEMMA MessageTypes ==
    ASSUME NEW m \in Message
    PROVE  /\ m.questions \in Seq(Question) /\ m.records \in Seq(Record)
           /\ Len(m.questions) \in Nat /\ Len(m.records) \in Nat
           /\ \A i \in 1 .. Len(m.questions) : m.questions[i] \in Question
           /\ \A i \in 1 .. Len(m.records) : m.records[i] \in Record
           /\ DOMAIN m.questions = 1 .. Len(m.questions) /\ DOMAIN m.records = 1 .. Len(m.records)
           /\ DOMAIN m = {"questions", "records"} /\ Done(m) \in Nat
<1>1. m.questions \in Seq(Question) /\ m.records \in Seq(Record) /\ DOMAIN m = {"questions", "records"}
  BY DEF Message, Question, Record
<1>2. Len(m.questions) \in Nat /\ Len(m.records) \in Nat
  BY <1>1, LenProperties
<1> QED  BY <1>1, <1>2, LenProperties, ElementOfSeq DEF Done

(* The parts of the message are where s says.                              *)
LEMMA PartIs ==
    ASSUME NEW buf, NEW N, NEW m \in Message, NEW s, Whole(buf, N, m, s),
           NEW k \in Nat, k < Len(m.questions) + Len(m.records)
    PROVE  /\ s[k + 1] \in Nat /\ s[k + 2] \in Nat /\ s[k + 1] <= s[k + 2] /\ s[k + 2] <= Len(buf)
           /\ PartAt(buf, N, m, k + 1, s[k + 1], s[k + 2])
<1> DEFINE n == Len(m.questions) + Len(m.records)
<1>1. n \in Nat /\ k + 1 \in 1 .. n /\ (k + 1) + 1 = k + 2
  <2>1. n \in Nat /\ k < n
    <3>1. \A a, b \in Nat : a + b \in Nat
      OBVIOUS
    <3> QED  BY <3>1, MessageTypes
  <2> HIDE DEF n
  <2> QED  BY <2>1
<1>2. PartsAt(buf, N, m, n, s) /\ s[n + 1] = Len(buf)
  BY DEF Whole
<1> HIDE DEF n
<1>3. Rising(s) /\ Len(s) = n + 1 /\ \A i \in 1 .. n : PartAt(buf, N, m, i, s[i], s[i + 1])
  BY <1>2 DEF PartsAt
<1>4. \A j \in 1 .. n : s[j] \in Nat /\ s[j + 1] \in Nat /\ s[j] <= s[j + 1] /\ s[j + 1] <= s[n + 1]
  BY <1>1, <1>3, RisingIs
<1>5. PartAt(buf, N, m, k + 1, s[k + 1], s[(k + 1) + 1])
  BY <1>1, <1>3
<1>6. s[k + 1] \in Nat /\ s[(k + 1) + 1] \in Nat /\ s[k + 1] <= s[(k + 1) + 1] /\ s[(k + 1) + 1] <= s[n + 1]
  BY <1>1, <1>4
<1> QED  BY <1>1, <1>2, <1>5, <1>6

(* A question was read.                                                    *)
LEMMA QuestionCounts ==
    ASSUME NEW m \in Message, NEW g \in Message, NEW h \in Message, NEW l \in [questions : Nat, records : Nat],
           SoFar(m, g, l, 1, 0), NEW q \in Question, SameQuestion(NextQ(m, g), q),
           h.questions = Append(g.questions, q), h.records = g.records
    PROVE  SoFar(m, h, l, 0, 0) /\ Done(h) = Done(g) + 1
<1> DEFINE n == Len(g.questions)
           r == Len(g.records)
           nq == Len(m.questions)
           nr == Len(m.records)
           b == h.questions
<1>1. n \in Nat /\ r \in Nat /\ nq \in Nat /\ nr \in Nat /\ g.questions \in Seq(Question)
      /\ l.questions \in Nat /\ l.records \in Nat
  BY MessageTypes
<1>2. Len(b) = n + 1 /\ b[n + 1] = q /\ \A i \in 1 .. n : b[i] = g.questions[i]
  BY <1>1, AppendProperties
<1>3. /\ (n + 1) + l.questions = nq /\ (r + 0) + l.records = nr /\ (r + 0 > 0 => n = nq)
      /\ \A i \in 1 .. n : SameQuestion(m.questions[i], g.questions[i])
      /\ \A i \in 1 .. r : SameRecord(m.records[i], g.records[i])
      /\ SameQuestion(m.questions[n + 1], q)
  BY DEF SoFar, NextQ
<1> HIDE DEF n, nq, nr, b, r
<1>4. r = 0 /\ ((n + 1) + 0) + l.questions = nq /\ (r + 0) + l.records = nr
  BY <1>1, <1>3
<1>5. \A i \in 1 .. n + 1 : SameQuestion(m.questions[i], b[i])
  <2>1. \A i \in 1 .. n + 1 : i = n + 1 \/ i \in 1 .. n
    BY <1>1
  <2> QED  BY <1>2, <1>3, <2>1
<1>6. (Len(b) + 0) + l.questions = nq /\ (\A i \in 1 .. Len(b) : SameQuestion(m.questions[i], b[i])) /\ ~(r + 0 > 0)
  BY <1>2, <1>4, <1>5
<1>7. SoFar(m, h, l, 0, 0)
  BY <1>3, <1>4, <1>6 DEF SoFar, b, r, nq, nr
<1>8. Done(h) = (n + 1) + r /\ Done(g) = n + r
  BY <1>2 DEF Done, n, r, b
<1> QED  BY <1>1, <1>7, <1>8

(* A record was read.                                                      *)
LEMMA RecordCounts ==
    ASSUME NEW m \in Message, NEW g \in Message, NEW h \in Message, NEW l \in [questions : Nat, records : Nat],
           SoFar(m, g, l, 0, 1), NEW c \in Record, SameRecord(NextR(m, g), c),
           h.records = Append(g.records, c), h.questions = g.questions
    PROVE  SoFar(m, h, l, 0, 0) /\ Done(h) = Done(g) + 1
<1> DEFINE n == Len(g.questions)
           r == Len(g.records)
           nq == Len(m.questions)
           nr == Len(m.records)
           b == h.records
<1>1. n \in Nat /\ r \in Nat /\ nq \in Nat /\ nr \in Nat /\ g.records \in Seq(Record)
      /\ l.questions \in Nat /\ l.records \in Nat
  BY MessageTypes
<1>2. Len(b) = r + 1 /\ b[r + 1] = c /\ \A i \in 1 .. r : b[i] = g.records[i]
  BY <1>1, AppendProperties
<1>3. /\ (n + 0) + l.questions = nq /\ (r + 1) + l.records = nr /\ (r + 1 > 0 => n = nq)
      /\ \A i \in 1 .. n : SameQuestion(m.questions[i], g.questions[i])
      /\ \A i \in 1 .. r : SameRecord(m.records[i], g.records[i])
      /\ SameRecord(m.records[r + 1], c)
  BY DEF SoFar, NextR
<1> HIDE DEF n, nq, nr, b, r
<1>4. n = nq /\ (n + 0) + l.questions = nq
  BY <1>1, <1>3
<1>5. \A i \in 1 .. r + 1 : SameRecord(m.records[i], b[i])
  <2>1. \A i \in 1 .. r + 1 : i = r + 1 \/ i \in 1 .. r
    BY <1>1
  <2> QED  BY <1>2, <1>3, <2>1
<1>6. (Len(b) + 0) + l.records = nr /\ (\A i \in 1 .. Len(b) : SameRecord(m.records[i], b[i]))
  <2>1. (Len(b) + 0) + l.records = nr
    BY <1>1, <1>2, <1>3
  <2> QED  BY <1>2, <1>5, <2>1
<1>7. SoFar(m, h, l, 0, 0)
  BY <1>3, <1>4, <1>6 DEF SoFar, b, n, nq, nr
<1>8. Done(h) = n + (r + 1) /\ Done(g) = n + r
  BY <1>2 DEF Done, n, r, b
<1> QED  BY <1>1, <1>7, <1>8

(* The next question or record is taken up.                                *)
LEMMA QuestionTaken ==
    ASSUME NEW m \in Message, NEW g \in Message, NEW l \in [questions : Nat, records : Nat],
           SoFar(m, g, l, 0, 0), l.questions > 0
    PROVE  /\ SoFar(m, g, [l EXCEPT !.questions = @ - 1], 1, 0)
           /\ Done(g) < Len(m.questions) + Len(m.records) /\ Done(g) = Len(g.questions)
           /\ Done(g) + 1 <= Len(m.questions) /\ NextQ(m, g) \in Question
<1> DEFINE n == Len(g.questions)
           r == Len(g.records)
           nq == Len(m.questions)
           nr == Len(m.records)
           u == l.questions
           k == [l EXCEPT !.questions = @ - 1]
<1>1. n \in Nat /\ r \in Nat /\ nq \in Nat /\ nr \in Nat /\ u \in Nat /\ l.records \in Nat
  BY MessageTypes
<1>2. k.questions = u - 1 /\ k.records = l.records
  OBVIOUS
<1>3. /\ (n + 0) + u = nq /\ (r + 0) + l.records = nr /\ (r + 0 > 0 => n = nq)
      /\ \A i \in 1 .. n : SameQuestion(m.questions[i], g.questions[i])
      /\ \A i \in 1 .. r : SameRecord(m.records[i], g.records[i])
  BY DEF SoFar
<1>4. Done(g) = n + r /\ u > 0
  BY DEF Done
<1> HIDE DEF n, nq, nr, r, u, k
<1>5. r = 0 /\ n + r < nq + nr /\ n + 1 <= nq /\ n + r = n
  BY <1>1, <1>3, <1>4
<1>6. (n + 1) + k.questions = nq /\ (r + 0) + k.records = nr /\ (r + 0 > 0 => n = nq)
  BY <1>1, <1>2, <1>3, <1>4
<1>7. SoFar(m, g, k, 1, 0)
  BY <1>3, <1>6 DEF SoFar, n, nq, nr, r
<1>8. NextQ(m, g) \in Question
  <2>1. n + 1 \in 1 .. nq
    BY <1>1, <1>5
  <2> QED  BY <2>1, MessageTypes DEF NextQ, n, nq
<1> QED  BY <1>4, <1>5, <1>7, <1>8 DEF k, n, nq, nr

(* The next record is taken up.                                            *)
LEMMA RecordTaken ==
    ASSUME NEW m \in Message, NEW g \in Message, NEW l \in [questions : Nat, records : Nat],
           SoFar(m, g, l, 0, 0), l.questions = 0, l.records > 0
    PROVE  /\ SoFar(m, g, [l EXCEPT !.records = @ - 1], 0, 1)
           /\ Done(g) < Len(m.questions) + Len(m.records)
           /\ ~(Done(g) + 1 <= Len(m.questions))
           /\ (Done(g) + 1) - Len(m.questions) = Len(g.records) + 1
<1> DEFINE n == Len(g.questions)
           r == Len(g.records)
           nq == Len(m.questions)
           nr == Len(m.records)
           u == l.records
           k == [l EXCEPT !.records = @ - 1]
<1>1. n \in Nat /\ r \in Nat /\ nq \in Nat /\ nr \in Nat /\ u \in Nat
  BY MessageTypes
<1>2. k.records = u - 1 /\ k.questions = 0
  OBVIOUS
<1>3. /\ (n + 0) + 0 = nq /\ (r + 0) + u = nr
      /\ \A i \in 1 .. n : SameQuestion(m.questions[i], g.questions[i])
      /\ \A i \in 1 .. r : SameRecord(m.records[i], g.records[i])
  BY DEF SoFar
<1>4. Done(g) = n + r /\ u > 0
  BY DEF Done
<1> HIDE DEF n, nq, nr, r, u, k
<1>5. n = nq /\ n + r < nq + nr /\ ~((n + r) + 1 <= nq) /\ ((n + r) + 1) - nq = r + 1
  BY <1>1, <1>3, <1>4
<1>6. (n + 0) + k.questions = nq /\ (r + 1) + k.records = nr
  BY <1>1, <1>2, <1>3, <1>4
<1>7. SoFar(m, g, k, 0, 1)
  BY <1>3, <1>5, <1>6 DEF SoFar, n, nq, nr, r
<1> QED  BY <1>4, <1>5, <1>7 DEF k, n, nq, nr, r

(* A record at hand is one of the message.                                 *)
LEMMA RecordAtHandIs ==
    ASSUME NEW m \in Message, NEW g \in Message, NEW l \in [questions : Nat, records : Nat], SoFar(m, g, l, 0, 1)
    PROVE  /\ NextR(m, g) \in Record /\ Len(g.records) + 1 \in 1 .. Len(m.records)
           /\ Done(g) \in Nat /\ Done(g) < Len(m.questions) + Len(m.records)
<1> DEFINE n == Len(g.questions)
           r == Len(g.records)
           nq == Len(m.questions)
           nr == Len(m.records)
<1>1. n \in Nat /\ r \in Nat /\ nq \in Nat /\ nr \in Nat /\ l.questions \in Nat /\ l.records \in Nat
  BY MessageTypes
<1>2. (n + 0) + l.questions = nq /\ (r + 1) + l.records = nr /\ Done(g) = n + r
  BY DEF SoFar, Done
<1> HIDE DEF n, nq, nr, r
<1>3. r + 1 \in 1 .. nr /\ n + r \in Nat /\ n + r < nq + nr
  BY <1>1, <1>2
<1> QED  BY <1>2, <1>3, MessageTypes DEF NextR, n, nq, nr, r

(* When nothing is left, the message is the same.                          *)
LEMMA AllIsRead ==
    ASSUME NEW m \in Message, NEW g \in Message, NEW l \in [questions : Nat, records : Nat],
           SoFar(m, g, l, 0, 0), l.questions = 0, l.records = 0
    PROVE  SameMessage(m, g) /\ Done(g) = Len(m.questions) + Len(m.records)
<1> DEFINE n == Len(g.questions)
           r == Len(g.records)
           nq == Len(m.questions)
           nr == Len(m.records)
<1>1. n \in Nat /\ r \in Nat /\ DOMAIN m.questions = 1 .. nq /\ DOMAIN m.records = 1 .. nr
  BY MessageTypes
<1>2. (n + 0) + 0 = nq /\ (r + 0) + 0 = nr
  BY DEF SoFar
<1>3. /\ \A i \in 1 .. n : SameQuestion(m.questions[i], g.questions[i])
      /\ \A i \in 1 .. r : SameRecord(m.records[i], g.records[i])
  BY DEF SoFar
<1>4. n = nq /\ r = nr
  BY <1>1, <1>2
<1>5. SameMessage(m, g)
  BY <1>1, <1>3, <1>4 DEF SameMessage, SameQuestion, SameRecord
<1> QED  BY <1>4, <1>5 DEF Done

-------------------------------------------------------------------------------

(* Within the name of a question.                                          *)
AtQuestion(N, s) ==
    /\ SoFar(sent, msg, left, 1, 0)
    /\ \E Q \in Question, e \in Nat :
          /\ Q = NextQ(sent, msg) /\ s[Done(msg) + 2] = e + 1
          /\ e + 1 <= Size /\ packet[e + 1] = Q.type
          /\ Writable(SplitQName(Q.name)) /\ NameProgress(N, Q.name, e)

(* The data of a record ends at z and lies where x says.                   *)
DataAt(N, R, z, x) ==
    LET n == Len(Items(R)) IN
    ItemsAt(packet, N, Items(R), n, x) /\ x[n + 1] = z /\ z <= Size

(* Within the name of a record.                                            *)
AtRecord(N, s) ==
    /\ SoFar(sent, msg, left, 0, 1)
    /\ \E R \in Record, z \in Nat, e \in Nat, x \in Seq(Nat) :
          /\ R = NextR(sent, msg) /\ z = s[Done(msg) + 2]
          /\ DataAt(N, R, z, x) /\ x[1] = e + 2 /\ packet[e + 1] = R.type /\ packet[e + 2] = z - (e + 2)
          /\ Writable(SplitQName(R.name)) /\ NameProgress(N, R.name, e)

(* The fields read so far are the same, and the position is at the next.   *)
FieldsRead(N, data, x) ==
    LET j == Len(rr.data) IN
    /\ j <= Len(data) /\ rr.cur = x[j + 1]
    /\ \A i \in 1 .. j : SameItem(data[i], rr.data[i])
    /\ rr.type = TypeTXT /\ rr.fields = <<>> => j = Len(data)
    /\ InName => \E item \in Item, to \in Nat :
          /\ j < Len(data) /\ item = data[j + 1] /\ item.op = "name" /\ to = x[j + 2]
          /\ Writable(SplitQName(item.value)) /\ NameProgress(N, item.value, to)

(* Within the data of a record.                                            *)
AtData(N, s) ==
    /\ SoFar(sent, msg, left, 0, 1)
    /\ \E R \in Record, z \in Nat, x \in Seq(Nat) :
          /\ R = NextR(sent, msg) /\ z = s[Done(msg) + 2]
          /\ DataAt(N, R, z, x) /\ rr.type = R.type /\ SameName(R.name, rr.name)
          /\ rr.start = x[1] /\ rr.end = z
          /\ R.parsed => FieldsRead(N, R.data, x)

(* Decode on the way through what Encode wrote.                            *)
Progress(N, s) ==
    /\ pc # "error"
    /\ pc = "start" => msg = NothingRead
    /\ pc = "section" => SoFar(sent, msg, left, 0, 0) /\ off = s[Done(msg) + 1]
    /\ InName /\ nm.user = "question" => AtQuestion(N, s)
    /\ InName /\ nm.user = "record" => AtRecord(N, s)
    /\ ReadingData => AtData(N, s)
    /\ pc = "done" => SameMessage(sent, msg)

(* All that is known before a step of Decode.                              *)
Before(N, s) ==
    /\ IInv /\ ReadInv /\ ShapeInv /\ sent \in Message /\ Whole(packet, N, sent, s) /\ Progress(N, s)

(* The types of what Decode keeps on the way.                              *)
LEMMA BeforeTypes ==
    ASSUME NEW N, NEW s, Before(N, s)
    PROVE  /\ packet \in Seq(Nat) /\ Size \in Nat /\ Size = Len(packet) /\ sent \in Message /\ msg \in Message
           /\ left \in [questions : Nat, records : Nat] /\ nm \in NameType /\ NamesOK(packet, N)
           /\ Len(sent.questions) \in Nat /\ Len(sent.records) \in Nat /\ Done(msg) \in Nat
           /\ nm.user \in {"question", "record", "rdata"}
           /\ DOMAIN nm = {"user", "curr", "next", "labels", "visited", "jumps"}
<1>1. packet \in Seq(Nat) /\ sent \in Message /\ msg \in Message /\ left \in [questions : Nat, records : Nat] /\ nm \in NameType
  BY DEF Before, IInv, ReadInv
<1>2. Size \in Nat /\ Size = Len(packet)
  BY <1>1, CellType DEF Size
<1>3. NamesOK(packet, N)
  BY DEF Before, Whole
<1> QED  BY <1>1, <1>2, <1>3, MessageTypes DEF NameType

(* The counts of the header are those of the message.                      *)
LEMMA HeaderIsRead ==
    ASSUME NEW N, NEW s, Before(N, s), DecodeHeader, UNCHANGED sent
    PROVE  Progress(N, s)'
<1>1. /\ 2 <= Size /\ Size <= MaxPacketLen /\ packet[1] = Len(sent.questions) /\ packet[2] = Len(sent.records)
      /\ s[1] = 2
  BY DEF Before, Whole, PartsAt, Size
<1>2. MaxPacketLen \in Nat /\ Size \in Nat /\ Len(sent.questions) \in Nat /\ Len(sent.records) \in Nat
  BY WireAssumption, BeforeTypes
<1>3. left' = HeaderCounts /\ off' = 2 /\ pc' = "section" /\ UNCHANGED msg
  BY <1>1, <1>2 DEF DecodeHeader, HeaderSize, Goto
<1>4. left'.questions = Len(sent.questions) /\ left'.records = Len(sent.records)
  BY <1>1, <1>3 DEF HeaderCounts, At
<1>5. msg = NothingRead
  BY DEF DecodeHeader, Before, Progress
<1>6. Len(msg.questions) = 0 /\ Len(msg.records) = 0
  BY <1>5, TextTypes DEF NothingRead
<1>7. SoFar(sent, msg, left', 0, 0)
  <2>1. \A a \in Nat : (0 + 0) + a = a
    OBVIOUS
  <2>2. ~(0 + 0 > 0) /\ 1 .. 0 = {}
    OBVIOUS
  <2> QED  BY <1>2, <1>4, <1>6, <2>1, <2>2 DEF SoFar
<1>8. Done(msg) + 1 = 1
  BY <1>6 DEF Done
<1>9. SoFar(sent, msg, left, 0, 0)' /\ off' = s[Done(msg)' + 1]
  BY <1>1, <1>3, <1>7, <1>8
<1> QED  BY <1>3, <1>9 DEF Progress, InName, ReadingData

(* The name of the next question is read.                                  *)
LEMMA QuestionBegins ==
    ASSUME NEW N, NEW s, Before(N, s), NextQuestion, UNCHANGED sent
    PROVE  Progress(N, s)'
<1> DEFINE m == [left EXCEPT !.questions = @ - 1]
<1>0. /\ packet \in Seq(Nat) /\ Size \in Nat /\ Size = Len(packet) /\ sent \in Message /\ msg \in Message /\ Done(msg) \in Nat
      /\ left \in [questions : Nat, records : Nat]
  BY BeforeTypes
<1>1. pc = "section" /\ left.questions > 0 /\ left' = m /\ UNCHANGED <<packet, msg>> /\ CallName("question", off)
  BY DEF NextQuestion
<1>k. PICK k, Q, p : k \in Nat /\ k = Done(msg) /\ Q = NextQ(sent, msg) /\ p = off
  BY <1>0
<1>2. SoFar(sent, msg, left, 0, 0) /\ p = s[k + 1]
  BY <1>1, <1>k DEF Before, Progress
<1>3. /\ SoFar(sent, msg, m, 1, 0) /\ k < Len(sent.questions) + Len(sent.records) /\ k = Len(msg.questions)
      /\ k + 1 <= Len(sent.questions) /\ Q \in Question
  BY <1>0, <1>1, <1>2, <1>k, QuestionTaken
<1>4. /\ s[k + 1] \in Nat /\ s[k + 2] \in Nat /\ s[k + 2] <= Len(packet)
      /\ PartAt(packet, N, sent, k + 1, s[k + 1], s[k + 2])
  BY <1>0, <1>3, <1>k, PartIs DEF Before
<1>5. QuestionAt(packet, N, Q, s[k + 1], s[k + 2])
  BY <1>3, <1>4, <1>k DEF PartAt, NextQ
<1> HIDE DEF m
<1>6. PICK e \in Nat : s[k + 2] = e + 1 /\ s[k + 2] <= Len(packet) /\ NamedAt(packet, N, p, Q.name, e) /\ packet[e + 1] = Q.type
  BY <1>2, <1>5 DEF QuestionAt
<1>7. Q.name \in Seq(Nat) /\ p \in Nat
  BY <1>2, <1>3, <1>4 DEF Question, Text, Cell
<1>8. NameProgress(N, Q.name, e)' /\ pc' = "name" /\ nm'.user = "question"
  BY <1>0, <1>1, <1>6, <1>7, <1>k, NameCalled
<1>9. Writable(SplitQName(Q.name))
  BY <1>6 DEF NamedAt
<1>10. Q = NextQ(sent, msg)' /\ k = Done(msg)' /\ Size' = Size
  BY <1>1, <1>k DEF Size
<1>11. SoFar(sent, msg, left, 1, 0)'
  BY <1>1, <1>3
<1>12. AtQuestion(N, s)'
  BY <1>0, <1>1, <1>3, <1>6, <1>8, <1>9, <1>10, <1>11 DEF AtQuestion
<1> QED  BY <1>8, <1>12 DEF Progress, InName, ReadingData

-------------------------------------------------------------------------------

(* The name of the next record is read.                                    *)
LEMMA RecordBegins ==
    ASSUME NEW N, NEW s, Before(N, s), NextRecord, UNCHANGED sent
    PROVE  Progress(N, s)'
<1> DEFINE m == [left EXCEPT !.records = @ - 1]
<1>0. /\ packet \in Seq(Nat) /\ Size \in Nat /\ Size = Len(packet) /\ sent \in Message /\ msg \in Message /\ Done(msg) \in Nat
      /\ left \in [questions : Nat, records : Nat]
  BY BeforeTypes
<1>1. pc = "section" /\ left.questions = 0 /\ left.records > 0 /\ left' = m /\ UNCHANGED <<packet, msg>> /\ CallName("record", off)
  BY DEF NextRecord
<1>k. PICK k, R, p : k \in Nat /\ k = Done(msg) /\ R = NextR(sent, msg) /\ p = off
  BY <1>0
<1>2. SoFar(sent, msg, left, 0, 0) /\ p = s[k + 1]
  BY <1>1, <1>k DEF Before, Progress
<1>3. /\ SoFar(sent, msg, m, 0, 1) /\ k < Len(sent.questions) + Len(sent.records)
      /\ ~(k + 1 <= Len(sent.questions)) /\ (k + 1) - Len(sent.questions) = Len(msg.records) + 1
  BY <1>0, <1>1, <1>2, <1>k, RecordTaken
<1>m. m \in [questions : Nat, records : Nat]
  BY <1>0, <1>1
<1>r. R \in Record
  <2> HIDE DEF m
  <2> QED  BY <1>0, <1>3, <1>k, <1>m, RecordAtHandIs
<1>4. /\ s[k + 1] \in Nat /\ s[k + 2] \in Nat /\ s[k + 2] <= Len(packet)
      /\ PartAt(packet, N, sent, k + 1, s[k + 1], s[k + 2])
  BY <1>0, <1>3, <1>k, PartIs DEF Before
<1>5. RecordAt(packet, N, R, p, s[k + 2])
  BY <1>2, <1>3, <1>4, <1>k DEF PartAt, NextR
<1> HIDE DEF m
<1>z. PICK z \in Nat : z = s[k + 2]
  BY <1>4
<1>6. PICK d \in Nat, x \in Seq(Nat) :
        /\ HeadAt(packet, N, R, p, d) /\ packet[d] = z - d
        /\ ItemsAt(packet, N, Items(R), Len(Items(R)), x) /\ x[1] = d /\ x[Len(Items(R)) + 1] = z
  BY <1>5, <1>z DEF RecordAt
<1>7. PICK e \in Nat : d = e + 2 /\ NamedAt(packet, N, p, R.name, e) /\ packet[e + 1] = R.type
  BY <1>6 DEF HeadAt
<1>8. R.name \in Seq(Nat) /\ p \in Nat
  BY <1>2, <1>4, <1>r DEF Record, Text, Cell
<1>9. NameProgress(N, R.name, e)' /\ pc' = "name" /\ nm'.user = "record"
  BY <1>0, <1>1, <1>7, <1>8, <1>k, NameCalled
<1>10. Writable(SplitQName(R.name))
  BY <1>7 DEF NamedAt
<1>11. R = NextR(sent, msg)' /\ k = Done(msg)' /\ Size' = Size
  BY <1>1, <1>k DEF Size
<1>12. SoFar(sent, msg, left, 0, 1)'
  BY <1>1, <1>3
<1>13. DataAt(N, R, z, x)'
  BY <1>0, <1>1, <1>4, <1>6, <1>11, <1>z DEF DataAt
<1>14. x[1] = e + 2 /\ packet'[e + 1] = R.type /\ packet'[e + 2] = z - (e + 2)
  BY <1>1, <1>6, <1>7
<1>15. AtRecord(N, s)'
  BY <1>r, <1>z, <1>9, <1>10, <1>11, <1>12, <1>13, <1>14 DEF AtRecord
<1> QED  BY <1>9, <1>15 DEF Progress, InName, ReadingData

(* Everything has been read, to the end of the packet.                     *)
LEMMA DecodingFinishes ==
    ASSUME NEW N, NEW s, Before(N, s), Finish, UNCHANGED sent
    PROVE  Progress(N, s)'
<1>0. sent \in Message /\ msg \in Message /\ left \in [questions : Nat, records : Nat] /\ Size \in Nat
  BY BeforeTypes
<1>1. pc = "section" /\ left.questions = 0 /\ left.records = 0 /\ UNCHANGED msg
  BY DEF Finish
<1>2. SoFar(sent, msg, left, 0, 0) /\ off = s[Done(msg) + 1]
  BY <1>1 DEF Before, Progress
<1>3. SameMessage(sent, msg) /\ Done(msg) = Len(sent.questions) + Len(sent.records)
  BY <1>0, <1>1, <1>2, AllIsRead
<1>4. off = Size
  BY <1>2, <1>3 DEF Before, Whole, Size
<1>5. pc' = "done"
  BY <1>0, <1>4 DEF Finish, Goto
<1>6. SameMessage(sent, msg)'
  BY <1>1, <1>3
<1> QED  BY <1>5, <1>6 DEF Progress, InName, ReadingData

(* A step of decodeName.                                                   *)
LEMMA NameAdvances ==
    ASSUME NEW N, NEW s, Before(N, s), NameStep, UNCHANGED sent
    PROVE  Progress(N, s)'
<1>0. /\ packet \in Seq(Nat) /\ IInv /\ NamesOK(packet, N) /\ nm.user \in {"question", "record", "rdata"}
      /\ DOMAIN nm = {"user", "curr", "next", "labels", "visited", "jumps"}
  BY BeforeTypes DEF Before
<1>1. /\ pc = "name" /\ UNCHANGED <<packet, off, left, rr, msg>> /\ nm'.user = nm.user
      /\ pc' \in {"name", "named", "badname"}
  BY <1>0 DEF NameStep, FollowPointer, Jumped, ReadLabel, NameEnds, NameFails, Goto
<1>2. Size' = Size
  BY <1>1 DEF Size
<1>3. UNCHANGED <<SoFar(sent, msg, left, 0, 1), SoFar(sent, msg, left, 1, 0), NextQ(sent, msg), NextR(sent, msg), Done(msg)>>
  BY <1>1
<1>4. CASE nm.user = "question"
  <2>1. AtQuestion(N, s)
    BY <1>1, <1>4 DEF Before, Progress, InName
  <2>2. PICK Q \in Question, e \in Nat :
          /\ Q = NextQ(sent, msg) /\ s[Done(msg) + 2] = e + 1
          /\ e + 1 <= Size /\ packet[e + 1] = Q.type
          /\ Writable(SplitQName(Q.name)) /\ NameProgress(N, Q.name, e)
    BY <2>1 DEF AtQuestion
  <2>3. NameProgress(N, Q.name, e)' /\ pc' \in {"name", "named"}
    <3>1. Q.name \in Seq(Nat)
      BY DEF Question, Text, Cell
    <3> QED  BY <1>0, <1>1, <2>2, <3>1, NameMoves
  <2>4. AtQuestion(N, s)'
    BY <1>1, <1>2, <1>3, <2>1, <2>2, <2>3 DEF AtQuestion
  <2> QED  BY <1>1, <1>4, <2>3, <2>4 DEF Progress, ReadingData
<1>5. CASE nm.user = "record"
  <2>1. AtRecord(N, s)
    BY <1>1, <1>5 DEF Before, Progress, InName
  <2>2. PICK R \in Record, z \in Nat, e \in Nat, x \in Seq(Nat) :
          /\ R = NextR(sent, msg) /\ z = s[Done(msg) + 2]
          /\ DataAt(N, R, z, x) /\ x[1] = e + 2 /\ packet[e + 1] = R.type /\ packet[e + 2] = z - (e + 2)
          /\ Writable(SplitQName(R.name)) /\ NameProgress(N, R.name, e)
    BY <2>1 DEF AtRecord
  <2>3. NameProgress(N, R.name, e)' /\ pc' \in {"name", "named"}
    <3>1. R.name \in Seq(Nat)
      BY DEF Record, Text, Cell
    <3> QED  BY <1>0, <1>1, <2>2, <3>1, NameMoves
  <2>4. DataAt(N, R, z, x)'
    BY <1>1, <1>2, <2>2 DEF DataAt
  <2>5. AtRecord(N, s)'
    BY <1>1, <1>2, <1>3, <2>1, <2>2, <2>3, <2>4 DEF AtRecord
  <2> QED  BY <1>1, <1>5, <2>3, <2>5 DEF Progress, ReadingData
<1>6. CASE nm.user = "rdata"
  <2>1. AtData(N, s)
    BY <1>1, <1>6 DEF Before, Progress, ReadingData, InName
  <2>2. PICK R \in Record, z \in Nat, x \in Seq(Nat) :
          /\ R = NextR(sent, msg) /\ z = s[Done(msg) + 2]
          /\ DataAt(N, R, z, x) /\ rr.type = R.type /\ SameName(R.name, rr.name)
          /\ rr.start = x[1] /\ rr.end = z
          /\ R.parsed => FieldsRead(N, R.data, x)
    BY <2>1 DEF AtData
  <2>3. DataAt(N, R, z, x)'
    BY <1>1, <1>2, <2>2 DEF DataAt
  <2>4. ASSUME R.parsed  PROVE FieldsRead(N, R.data, x)'
    <3>1. FieldsRead(N, R.data, x)
      BY <2>2, <2>4
    <3>2. PICK item \in Item, to \in Nat :
          /\ Len(rr.data) < Len(R.data) /\ item = R.data[Len(rr.data) + 1] /\ item.op = "name" /\ to = x[Len(rr.data) + 2]
          /\ Writable(SplitQName(item.value)) /\ NameProgress(N, item.value, to)
      BY <1>1, <3>1 DEF FieldsRead, InName
    <3>3. NameProgress(N, item.value, to)'
      <4>1. item.value \in Seq(Nat)
        BY DEF Item, Text, Cell
      <4> QED  BY <1>0, <1>1, <3>2, <4>1, NameMoves
    <3>4. rr' = rr
      BY <1>1
    <3> QED  BY <3>1, <3>2, <3>3, <3>4 DEF FieldsRead
  <2>5. SameName(R.name, rr.name)'
    BY <1>1, <2>2
  <2>6. AtData(N, s)'
    BY <1>1, <1>3, <2>1, <2>2, <2>3, <2>4, <2>5 DEF AtData
  <2> QED  BY <1>1, <1>6, <2>6 DEF Progress
<1> QED  BY <1>0, <1>4, <1>5, <1>6

-------------------------------------------------------------------------------

(* A question has been read.                                               *)
LEMMA QuestionIsRead ==
    ASSUME NEW N, NEW s, Before(N, s), EndQuestion, UNCHANGED sent, ReadInv'
    PROVE  Progress(N, s)'
<1>0. /\ packet \in Seq(Nat) /\ Size \in Nat /\ Size = Len(packet) /\ sent \in Message /\ msg \in Message /\ Done(msg) \in Nat
      /\ left \in [questions : Nat, records : Nat] /\ nm.labels \in LabelLists
  BY BeforeTypes DEF NameType, LabelLists
<1>1. pc = "named" /\ nm.user = "question" /\ UNCHANGED <<packet, left>>
  BY DEF EndQuestion
<1>2. SoFar(sent, msg, left, 1, 0) /\ AtQuestion(N, s)
  BY <1>1 DEF Before, Progress, AtQuestion, InName
<1>3. PICK Q \in Question, e \in Nat :
          /\ Q = NextQ(sent, msg) /\ s[Done(msg) + 2] = e + 1
          /\ e + 1 <= Size /\ packet[e + 1] = Q.type
          /\ Writable(SplitQName(Q.name)) /\ NameProgress(N, Q.name, e)
  BY <1>2 DEF AtQuestion
<1>4. SameLabels(SplitQName(Q.name), nm.labels) /\ nm.next = e
  BY <1>1, <1>3 DEF NameProgress
<1>5. Q.name \in Seq(Nat)
  BY DEF Question, Text, Cell
<1>6. SameName(Q.name, Join(nm.labels))
  BY <1>0, <1>4, <1>5, NameIsRead
<1> DEFINE q == [name |-> Join(nm.labels), type |-> At(nm.next)]
<1>7. At(nm.next) = Q.type /\ SameQuestion(Q, q)
  BY <1>3, <1>4, <1>6 DEF At, SameQuestion
<1>8. q \in Question
  <2>1. Join(nm.labels) \in Seq(Nat)
    BY <1>0, JoinType
  <2> QED  BY <1>7, <2>1 DEF Question, Text, Cell
<1>9. /\ msg' = [msg EXCEPT !.questions = Append(@, q)] /\ off' = e + 1 /\ pc' = "section"
  <2>1. ~(e + 1 > Size)
    BY <1>0, <1>3
  <2> QED  BY <1>4, <2>1 DEF EndQuestion, QuestionFixed, Goto
<1> HIDE DEF q
<1>10. msg'.questions = Append(msg.questions, q) /\ msg'.records = msg.records /\ msg' \in Message
  BY <1>0, <1>9, MessageTypes DEF ReadInv
<1>11. SoFar(sent, msg', left, 0, 0) /\ Done(msg') = Done(msg) + 1
  BY <1>0, <1>2, <1>3, <1>7, <1>8, <1>10, QuestionCounts
<1>12. SoFar(sent, msg, left, 0, 0)'
  BY <1>1, <1>11
<1>13. off' = s[Done(msg)' + 1]
  <2>1. \A k \in Nat : (k + 1) + 1 = k + 2
    OBVIOUS
  <2>2. Done(msg') + 1 = Done(msg) + 2
    BY <1>0, <1>11, <2>1
  <2> QED  BY <1>3, <1>9, <2>2
<1> QED  BY <1>9, <1>12, <1>13 DEF Progress, InName, ReadingData

(* The data of a record is reached.                                        *)
LEMMA DataIsReached ==
    ASSUME NEW N, NEW s, Before(N, s), StartRecord, UNCHANGED sent
    PROVE  Progress(N, s)'
<1>0. /\ packet \in Seq(Nat) /\ Size \in Nat /\ Size = Len(packet) /\ sent \in Message /\ msg \in Message
      /\ left \in [questions : Nat, records : Nat] /\ nm.labels \in LabelLists
  BY BeforeTypes DEF NameType, LabelLists
<1>1. pc = "named" /\ nm.user = "record" /\ UNCHANGED <<packet, left, msg>>
  BY DEF StartRecord
<1>2. SoFar(sent, msg, left, 0, 1) /\ AtRecord(N, s)
  BY <1>1 DEF Before, Progress, AtRecord, InName
<1>3. PICK R \in Record, z \in Nat, e \in Nat, x \in Seq(Nat) :
          /\ R = NextR(sent, msg) /\ z = s[Done(msg) + 2]
          /\ DataAt(N, R, z, x) /\ x[1] = e + 2 /\ packet[e + 1] = R.type /\ packet[e + 2] = z - (e + 2)
          /\ Writable(SplitQName(R.name)) /\ NameProgress(N, R.name, e)
  BY <1>2 DEF AtRecord
<1>4. SameLabels(SplitQName(R.name), nm.labels) /\ nm.next = e
  BY <1>1, <1>3 DEF NameProgress
<1>5. R.name \in Seq(Nat)
  BY DEF Record, Text, Cell
<1>6. SameName(R.name, Join(nm.labels))
  BY <1>0, <1>4, <1>5, NameIsRead
<1>x. /\ Len(Items(R)) \in Nat /\ Rising(x) /\ Len(x) = Len(Items(R)) + 1 /\ x[Len(Items(R)) + 1] = z /\ z <= Size
  BY <1>3, ItemsTypes DEF DataAt, ItemsAt
<1>7. x[1] <= z
  BY <1>x, RisingIs
<1>8. At(nm.next) = R.type /\ At(nm.next + 1) = z - (e + 2)
  <2>1. (e + 1) + 1 = e + 2
    OBVIOUS
  <2> QED  BY <1>3, <1>4, <2>1 DEF At
<1>9. e + 2 <= Size /\ (e + 2) + (z - (e + 2)) = z
  BY <1>0, <1>3, <1>7, <1>x, SMTT(30)
<1>10. /\ pc' = "field" /\ rr'.name = Join(nm.labels) /\ rr'.type = R.type /\ rr'.start = e + 2
       /\ rr'.end = z /\ rr'.cur = e + 2 /\ rr'.fields = RDataFields(R.type) /\ rr'.data = <<>>
  <2>1. /\ nm.next + RecordFixed = e + 2
        /\ ~(e + 2 > Size) /\ ~((e + 2) + (z - (e + 2)) > Size)
    BY <1>0, <1>4, <1>9, <1>x DEF RecordFixed
  <2>2. /\ rr' = [name |-> Join(nm.labels), type |-> At(nm.next), start |-> e + 2,
                  end |-> (e + 2) + At(nm.next + 1), cur |-> e + 2,
                  fields |-> RDataFields(At(nm.next)), data |-> <<>>]
        /\ pc' = "field"
    BY <1>8, <2>1 DEF StartRecord, Goto
  <2> QED  BY <1>8, <1>9, <2>2
<1>11. DataAt(N, R, z, x)'
  <2>1. Size' = Size
    BY <1>1 DEF Size
  <2> QED  BY <1>1, <1>3, <2>1 DEF DataAt
<1>12. ASSUME R.parsed  PROVE FieldsRead(N, R.data, x)'
  <2>1. Len(rr'.data) = 0 /\ 0 + 1 = 1 /\ 1 .. 0 = {}
    BY <1>10, TextTypes
  <2>2. 0 <= Len(R.data)
    <3>1. R.data \in Seq(Item)
      BY DEF Record
    <3>2. Len(R.data) \in Nat
      BY <3>1, LenProperties
    <3> QED  BY <3>2
  <2>3. ~InName'
    BY <1>10 DEF InName
  <2>4. ~(rr'.type = TypeTXT /\ rr'.fields = <<>>)
    <3>1. ASSUME R.type = TypeTXT  PROVE RDataFields(R.type) # <<>>
      <4>1. R.type \in Nat
        BY DEF Record, Cell
      <4>2. RDataFields(R.type) = <<Strings>>
        BY <3>1, <4>1, FieldsAreFormed
      <4> QED  BY <4>2
    <3> QED  BY <1>10, <3>1
  <2>5. rr'.cur = x[0 + 1]
    BY <1>3, <1>10, <2>1
  <2> QED  BY <2>1, <2>2, <2>3, <2>4, <2>5 DEF FieldsRead
<1>13. SoFar(sent, msg, left, 0, 1)' /\ R = NextR(sent, msg)' /\ z = s[Done(msg)' + 2]
  BY <1>1, <1>2, <1>3
<1>14. rr'.start = x[1] /\ SameName(R.name, rr'.name)
  BY <1>3, <1>6, <1>10
<1>15. AtData(N, s)'
  BY <1>10, <1>11, <1>12, <1>13, <1>14 DEF AtData
<1> QED  BY <1>10, <1>15 DEF Progress, InName

(* A record has been read: with its data if that was understood before,    *)
(* and with the same cells in any case.                                    *)
LEMMA RecordIsRead ==
    ASSUME NEW N, NEW s, Before(N, s), AtData(N, s), NEW parsed \in BOOLEAN, EndRecord(parsed), UNCHANGED sent, ReadInv',
           NextR(sent, msg).parsed => parsed /\ Len(rr.data) = Len(NextR(sent, msg).data)
    PROVE  Progress(N, s)'
<1>0. /\ packet \in Seq(Nat) /\ Size \in Nat /\ Size = Len(packet) /\ sent \in Message /\ msg \in Message /\ Done(msg) \in Nat
      /\ left \in [questions : Nat, records : Nat]
  BY BeforeTypes
<1>i. IInv /\ ReadInv
  BY DEF Before
<1>t. rr.type \in Nat /\ rr.data \in Seq(Item) /\ rr.start \in Nat /\ rr.end \in Nat /\ rr.end <= Size /\ rr.name \in Seq(Nat)
  BY <1>i, ShapeTypes DEF ReadInv, Text, Cell
<1>1. SoFar(sent, msg, left, 0, 1)
  BY DEF AtData
<1>2. PICK R \in Record, z \in Nat, x \in Seq(Nat) :
          /\ R = NextR(sent, msg) /\ z = s[Done(msg) + 2]
          /\ DataAt(N, R, z, x) /\ rr.type = R.type /\ SameName(R.name, rr.name)
          /\ rr.start = x[1] /\ rr.end = z
          /\ R.parsed => FieldsRead(N, R.data, x)
  BY DEF AtData
<1> DEFINE c == [name |-> rr.name, type |-> rr.type, raw |-> Cells(rr.start, rr.end),
                 parsed |-> parsed, data |-> IF parsed THEN rr.data ELSE <<>>]
<1>3. msg' = [msg EXCEPT !.records = Append(@, c)] /\ pc' = "section" /\ off' = z /\ UNCHANGED left
  BY <1>2 DEF EndRecord, Goto
<1>4. c \in Record
  <2>1. Cells(rr.start, rr.end) \in Seq(Nat)
    BY <1>0, <1>t, CellType
  <2>2. <<>> \in Seq(Item)
    BY EmptySeq
  <2> QED  BY <1>t, <2>1, <2>2 DEF Record, Text, Cell
<1>5. SameData(R, c)
  <2>1. CASE R.parsed
    <3>1. parsed /\ Len(rr.data) = Len(R.data) /\ c.parsed /\ c.data = rr.data
      BY <1>2, <2>1
    <3>2. \A i \in 1 .. Len(rr.data) : SameItem(R.data[i], rr.data[i])
      BY <1>2, <2>1 DEF FieldsRead
    <3>3. DOMAIN R.data = 1 .. Len(R.data)
      <4>1. R.data \in Seq(Item)
        BY DEF Record
      <4> QED  BY <4>1, LenProperties
    <3> HIDE DEF c
    <3>4. c.parsed /\ Len(R.data) = Len(c.data) /\ \A i \in DOMAIN R.data : SameItem(R.data[i], c.data[i])
      BY <3>1, <3>2, <3>3
    <3> QED  BY <2>1, <3>4 DEF SameData
  <2>2. CASE ~R.parsed
    <3> DEFINE v == R.raw
               item == [op |-> "rest", value |-> v]
               n == Len(v)
    <3>1. v \in Seq(Nat) /\ n \in Nat
      BY LenProperties DEF Record, Text, Cell
    <3>2. item.op = "rest" /\ item.value = v
      OBVIOUS
    <3>3. Items(R) = <<item>>
      BY <2>2 DEF Items
    <3> HIDE DEF item, v
    <3>4. Len(Items(R)) = 1 /\ Items(R)[1] = item
      BY <3>3
    <3>5. ItemAt(packet, N, item, x[1], x[2]) /\ x[2] = z
      <4>1. ItemsAt(packet, N, Items(R), 1, x) /\ x[1 + 1] = z
        BY <1>2, <3>4 DEF DataAt
      <4>2. 1 \in 1 .. 1 /\ 1 + 1 = 2
        OBVIOUS
      <4>3. ItemAt(packet, N, Items(R)[1], x[1], x[1 + 1])
        BY <4>1, <4>2 DEF ItemsAt
      <4> QED  BY <3>4, <4>1, <4>2, <4>3
    <3>6. z = rr.start + n /\ CellsAt(packet, rr.start, v) /\ z <= Len(packet)
      BY <1>2, <3>2, <3>5 DEF ItemAt, n
    <3> HIDE DEF n
    <3>7. Cells(rr.start, rr.start + n) \in Seq(Nat) /\ Len(Cells(rr.start, rr.start + n)) = n
          /\ \A i \in 1 .. n : Cells(rr.start, rr.start + n)[i] = packet[rr.start + i]
      BY <1>0, <1>t, <3>1, <3>6, CellsAre
    <3>8. \A i \in 1 .. n : packet[rr.start + i] = v[i]
      BY <3>6 DEF CellsAt, n
    <3>9. Cells(rr.start, rr.start + n) = v
      <4> DEFINE u == Cells(rr.start, rr.start + n)
      <4>1. u \in Seq(Nat) /\ Len(u) = Len(v) /\ \A i \in 1 .. Len(u) : u[i] = v[i]
        BY <3>7, <3>8 DEF n
      <4> HIDE DEF u
      <4>2. u = v
        BY <3>1, <4>1, SeqEqual
      <4> QED  BY <4>2 DEF u
    <3>10. c.raw = v
      BY <1>2, <3>6, <3>9
    <3> QED  BY <2>2, <3>10 DEF SameData, v
  <2> QED  BY <2>1, <2>2
<1>6. SameRecord(NextR(sent, msg), c)
  BY <1>2, <1>5 DEF SameRecord
<1> HIDE DEF c
<1>7. msg'.records = Append(msg.records, c) /\ msg'.questions = msg.questions /\ msg' \in Message
  BY <1>0, <1>3, MessageTypes DEF ReadInv
<1>8. SoFar(sent, msg', left, 0, 0) /\ Done(msg') = Done(msg) + 1
  BY <1>0, <1>1, <1>4, <1>6, <1>7, RecordCounts
<1>9. SoFar(sent, msg, left, 0, 0)'
  BY <1>3, <1>8
<1>10. off' = s[Done(msg)' + 1]
  <2>1. \A k \in Nat : (k + 1) + 1 = k + 2
    OBVIOUS
  <2>2. Done(msg') + 1 = Done(msg) + 2
    BY <1>0, <1>8, <2>1
  <2> QED  BY <1>2, <1>3, <2>2
<1> QED  BY <1>3, <1>9, <1>10 DEF Progress, InName, ReadingData

(* No name of what was written is bad, except in data that was not         *)
(* understood before.                                                      *)
LEMMA BadNameEnds ==
    ASSUME NEW N, NEW s, Before(N, s), BadName, UNCHANGED sent, ReadInv'
    PROVE  Progress(N, s)'
<1>1. pc = "badname" /\ InName
  BY DEF BadName, InName
<1>2. nm.user # "question"
  BY <1>1 DEF Before, Progress, AtQuestion, NameProgress
<1>3. nm.user # "record"
  BY <1>1 DEF Before, Progress, AtRecord, NameProgress
<1>4. nm.user = "rdata" /\ EndRecord(FALSE)
  BY <1>2, <1>3, BeforeTypes DEF BadName
<1>5. AtData(N, s)
  BY <1>1, <1>4 DEF Before, Progress, ReadingData
<1>6. ~NextR(sent, msg).parsed
  BY <1>1, <1>5 DEF AtData, FieldsRead, NameProgress
<1> QED  BY <1>4, <1>5, <1>6, RecordIsRead

-------------------------------------------------------------------------------

(* The record at hand, with the end of its data and the positions in it.   *)
DataBody(N, s, R, z, x) ==
    /\ SoFar(sent, msg, left, 0, 1)
    /\ R \in Record /\ z \in Nat /\ x \in Seq(Nat)
    /\ R = NextR(sent, msg) /\ z = s[Done(msg) + 2]
    /\ DataAt(N, R, z, x) /\ rr.type = R.type /\ SameName(R.name, rr.name)
    /\ rr.start = x[1] /\ rr.end = z
    /\ R.parsed => FieldsRead(N, R.data, x)

(* The same for data that was understood before.                           *)
OnField(N, s, R, z, x) == Before(N, s) /\ ShapeNow /\ DataBody(N, s, R, z, x) /\ R.parsed

(* A step within the data of a record.                                     *)
LEMMA DataMoves ==
    ASSUME NEW N, NEW s, NEW R, NEW z, NEW x, DataBody(N, s, R, z, x), UNCHANGED <<packet, left, msg, sent>>,
           rr'.type = rr.type, rr'.name = rr.name, rr'.start = rr.start, rr'.end = rr.end,
           R.parsed => FieldsRead(N, R.data, x)',
           pc' = "field" \/ (pc' \in {"name", "badname"} /\ nm'.user = "rdata")
    PROVE  Progress(N, s)'
<1>1. DataAt(N, R, z, x)'
  <2>1. Size' = Size
    BY DEF Size
  <2> QED  BY <2>1 DEF DataBody, DataAt
<1>2. SoFar(sent, msg, left, 0, 1)' /\ R = NextR(sent, msg)' /\ z = s[Done(msg)' + 2]
  BY DEF DataBody
<1>3. SameName(R.name, rr'.name)
  BY DEF DataBody
<1>4. AtData(N, s)'
  BY <1>1, <1>2, <1>3 DEF AtData, DataBody
<1> QED  BY <1>4 DEF Progress, InName

(* What is known at a field of data that was understood before.            *)
LEMMA OnFieldTypes ==
    ASSUME NEW N, NEW s, NEW R, NEW z, NEW x, OnField(N, s, R, z, x)
    PROVE  /\ R.type \in Nat /\ rr.type = R.type /\ R.data \in Seq(Item) /\ Len(R.data) \in Nat
           /\ Len(rr.data) \in Nat /\ Len(rr.data) <= Len(R.data) /\ rr.cur = x[Len(rr.data) + 1]
           /\ rr.end = z /\ z \in Nat /\ z <= Size /\ Size \in Nat /\ rr.cur \in Nat
           /\ ItemsAt(packet, N, R.data, Len(R.data), x) /\ x[Len(R.data) + 1] = z
           /\ Fits(R.type, R.data) /\ FieldsRead(N, R.data, x) /\ IInv /\ ReadInv
           /\ rr.fields \in Seq(Fields) /\ rr.data \in Seq(Item)
           /\ Shape(R.type, rr.fields, rr.data, rr.cur, rr.end)
           /\ DOMAIN rr = {"name", "type", "start", "end", "cur", "fields", "data"}
           /\ packet \in Seq(Nat) /\ Len(packet) = Size
<1>1. IInv /\ ReadInv /\ ShapeNow /\ R.parsed /\ R \in Record /\ DataBody(N, s, R, z, x) /\ Before(N, s)
  BY DEF OnField, Before, DataBody
<1>2. R.type \in Nat /\ R.data \in Seq(Item)
  BY <1>1 DEF Record, Cell
<1>3. Len(R.data) \in Nat
  BY <1>2, LenProperties
<1>4. /\ rr.fields \in Seq(Fields) /\ rr.data \in Seq(Item) /\ rr.cur \in Nat /\ Size \in Nat
      /\ DOMAIN rr = {"name", "type", "start", "end", "cur", "fields", "data"}
      /\ packet \in Seq(Nat) /\ Len(packet) = Size
  BY <1>1, ShapeTypes DEF Size
<1>5. Len(rr.data) \in Nat
  BY <1>4, LenProperties
<1>6. Items(R) = R.data
  BY <1>1 DEF Items
<1>7. ItemsAt(packet, N, R.data, Len(R.data), x) /\ x[Len(R.data) + 1] = z /\ z <= Size
  BY <1>1, <1>6 DEF DataBody, DataAt
<1>8. Fits(R.type, R.data)
  <2>1. sent \in Message /\ msg \in Message /\ left \in [questions : Nat, records : Nat]
    BY <1>1, BeforeTypes
  <2>2. SoFar(sent, msg, left, 0, 1) /\ R = NextR(sent, msg)
    BY <1>1 DEF DataBody
  <2>3. Len(msg.records) + 1 \in 1 .. Len(sent.records)
    BY <2>1, <2>2, RecordAtHandIs
  <2>4. Len(msg.records) + 1 \in DOMAIN sent.records
    BY <2>1, <2>3, MessageTypes
  <2>5. WellFormed(sent)
    BY <1>1 DEF Before, Whole
  <2> QED  BY <1>1, <2>2, <2>4, <2>5 DEF WellFormed, NextR
<1>9. FieldsRead(N, R.data, x) /\ rr.type = R.type /\ rr.end = z /\ z \in Nat
  BY <1>1 DEF DataBody
<1>10. Len(rr.data) <= Len(R.data) /\ rr.cur = x[Len(rr.data) + 1]
  BY <1>9 DEF FieldsRead
<1>11. Shape(R.type, rr.fields, rr.data, rr.cur, rr.end)
  BY <1>1, <1>9 DEF ShapeNow
<1> QED  BY <1>1, <1>2, <1>3, <1>4, <1>5, <1>7, <1>8, <1>9, <1>10, <1>11

(* The next item lies in the packet at the position.                       *)
LEMMA ItemIsThere ==
    ASSUME NEW N, NEW s, NEW R, NEW z, NEW x, OnField(N, s, R, z, x), NEW j \in Nat, j + 1 <= Len(R.data)
    PROVE  /\ R.data[j + 1] \in Item /\ ItemAt(packet, N, R.data[j + 1], x[j + 1], x[j + 2])
           /\ x[j + 1] \in Nat /\ x[j + 2] \in Nat /\ x[j + 1] <= x[j + 2] /\ x[j + 2] <= z
           /\ j + 1 = Len(R.data) => x[j + 2] = z
           /\ Len(R.data[j + 1].value) \in Nat /\ R.data[j + 1].value \in Seq(Nat)
<1> DEFINE n == Len(R.data)
<1>1. n \in Nat /\ R.data \in Seq(Item) /\ ItemsAt(packet, N, R.data, n, x) /\ x[n + 1] = z
  BY OnFieldTypes
<1>2. j + 1 <= n
  OBVIOUS
<1> HIDE DEF n
<1>3. j + 1 \in 1 .. n /\ (j + 1) + 1 = j + 2
  BY <1>1, <1>2
<1>4. R.data[j + 1] \in Item
  BY <1>1, <1>3, ElementOfSeq DEF n
<1>5. ItemAt(packet, N, R.data[j + 1], x[j + 1], x[(j + 1) + 1])
  BY <1>1, <1>3 DEF ItemsAt
<1>6. Rising(x) /\ Len(x) = n + 1
  BY <1>1 DEF ItemsAt
<1>7. \A i \in 1 .. n : x[i] \in Nat /\ x[i + 1] \in Nat /\ x[i] <= x[i + 1] /\ x[i + 1] <= x[n + 1]
  BY <1>1, <1>6, RisingIs
<1>8. x[j + 1] \in Nat /\ x[(j + 1) + 1] \in Nat /\ x[j + 1] <= x[(j + 1) + 1] /\ x[(j + 1) + 1] <= x[n + 1]
  BY <1>3, <1>7
<1>9. j + 1 = n => x[j + 2] = z
  BY <1>1, <1>3
<1>10. R.data[j + 1].value \in Seq(Nat) /\ Len(R.data[j + 1].value) \in Nat
  BY <1>4, LenProperties DEF Item, Text, Cell
<1> QED  BY <1>1, <1>3, <1>4, <1>5, <1>8, <1>9, <1>10 DEF n

(* The next item is what the field at hand reads.                          *)
LEMMA FieldIsNext ==
    ASSUME NEW N, NEW s, NEW R, NEW z, NEW x, OnField(N, s, R, z, x), rr.fields # <<>>, R.type # TypeTXT,
           Head(rr.fields).op \notin {"need", "exactly"}
    PROVE  LET j == Len(rr.data) IN
           /\ j + 1 <= Len(R.data) /\ R.data[j + 1].op = Head(rr.fields).op
           /\ Head(rr.fields).op = "numbers" => Len(R.data[j + 1].value) = Head(rr.fields).n
           /\ Head(rr.fields).op = "rest" => j + 1 = Len(R.data)
<1> DEFINE j == Len(rr.data)
           f == RDataFields(R.type)
<1>1. /\ R.type \in Nat /\ Fits(R.type, R.data) /\ rr.fields \in Seq(Fields)
      /\ Shape(R.type, rr.fields, rr.data, rr.cur, rr.end)
  BY OnFieldTypes
<1>2. PICK k \in Nat : AtHand(f, k, rr.fields, Tail(rr.fields), rr.data, rr.cur, rr.end)
  BY <1>1, FieldAtHand
<1>3. /\ Formed(f) /\ Len(f) \in Nat /\ k + 1 \in 1 .. Len(f) /\ k + 1 <= Len(f) /\ f[k + 1] = Head(rr.fields)
      /\ Matched(f, k, rr.data)
  BY <1>2 DEF AtHand
<1>4. Count(f, k) = j
  BY <1>3 DEF Matched
<1>5. /\ Count(f, k) + 1 <= Len(R.data) /\ FitsField(f, k + 1, R.data[Count(f, k) + 1])
      /\ k + 1 = Len(f) => Count(f, k) + 1 = Len(R.data)
  <2>1. k + 1 <= Len(RDataFields(R.type)) /\ RDataFields(R.type)[k + 1].op \notin {"need", "exactly"}
    BY <1>3
  <2> QED  BY <1>1, <2>1, FitsNext
<1> HIDE DEF f
<1>6. j + 1 <= Len(R.data) /\ FitsField(f, k + 1, R.data[j + 1]) /\ (k + 1 = Len(f) => j + 1 = Len(R.data))
  BY <1>4, <1>5
<1>7. f[k + 1].op = "rest" => k + 1 = Len(f)
  BY <1>3 DEF Formed
<1> QED  BY <1>3, <1>6, <1>7 DEF FitsField

(* An item was read that is the same.                                      *)
LEMMA ItemIsRead ==
    ASSUME NEW N, NEW s, NEW R, NEW z, NEW x, OnField(N, s, R, z, x), UNCHANGED <<packet, left, msg, sent>>,
           NEW item \in Item, Len(rr.data) + 1 <= Len(R.data), SameItem(R.data[Len(rr.data) + 1], item),
           rr'.type = rr.type, rr'.name = rr.name, rr'.start = rr.start, rr'.end = rr.end,
           rr'.data = Append(rr.data, item), rr'.cur = x[Len(rr.data) + 2],
           rr'.type = TypeTXT => rr'.fields # <<>>, pc' = "field"
    PROVE  Progress(N, s)'
<1>0. rr.data \in Seq(Item) /\ Len(rr.data) \in Nat /\ FieldsRead(N, R.data, x) /\ DataBody(N, s, R, z, x)
  BY OnFieldTypes DEF OnField
<1>1. PICK j \in Nat : j = Len(rr.data)
  BY <1>0
<1>2. Len(rr'.data) = j + 1 /\ rr'.data[j + 1] = item /\ \A i \in 1 .. j : rr'.data[i] = rr.data[i]
  BY <1>0, <1>1, AppendProperties
<1>3. \A i \in 1 .. j : SameItem(R.data[i], rr.data[i])
  BY <1>0, <1>1 DEF FieldsRead
<1>4. SameItem(R.data[j + 1], item)
  BY <1>1
<1>5. \A i \in 1 .. j + 1 : SameItem(R.data[i], rr'.data[i])
  <2>1. \A i \in 1 .. j + 1 : i = j + 1 \/ i \in 1 .. j
    OBVIOUS
  <2> QED  BY <1>2, <1>3, <1>4, <2>1
<1>6. rr'.cur = x[(j + 1) + 1] /\ j + 1 <= Len(R.data)
  <2>1. (j + 1) + 1 = j + 2
    OBVIOUS
  <2> QED  BY <1>1, <2>1
<1>7. ~InName'
  BY DEF InName
<1>8. FieldsRead(N, R.data, x)'
  BY <1>2, <1>5, <1>6, <1>7 DEF FieldsRead
<1> QED  BY <1>0, <1>8, DataMoves

(* A step that only takes a field away.                                    *)
LEMMA FieldIsPassed ==
    ASSUME NEW N, NEW s, NEW R, NEW z, NEW x, OnField(N, s, R, z, x), UNCHANGED <<packet, left, msg, sent>>,
           rr' = [rr EXCEPT !.fields = Tail(@)], pc' = "field",
           rr.type = TypeTXT => Len(rr.data) = Len(R.data)
    PROVE  Progress(N, s)'
<1>0. /\ DOMAIN rr = {"name", "type", "start", "end", "cur", "fields", "data"} /\ FieldsRead(N, R.data, x)
      /\ DataBody(N, s, R, z, x)
  BY OnFieldTypes DEF OnField
<1>1. /\ rr'.type = rr.type /\ rr'.name = rr.name /\ rr'.start = rr.start /\ rr'.end = rr.end
      /\ rr'.data = rr.data /\ rr'.cur = rr.cur
  BY <1>0
<1>2. ~InName'
  BY DEF InName
<1>3. FieldsRead(N, R.data, x)'
  BY <1>0, <1>1, <1>2 DEF FieldsRead
<1> QED  BY <1>0, <1>1, <1>3, DataMoves

-------------------------------------------------------------------------------

(* How wide an item is.                                                    *)
LEMMA ItemWidth ==
    ASSUME NEW buf, NEW N, NEW item \in Item, NEW a \in Nat, NEW b \in Nat, ItemAt(buf, N, item, a, b)
    PROVE  /\ item.op \in {"name", "counted"} => a + 1 <= b
           /\ item.op \in {"numbers", "rest"} => b = a + Len(item.value)
<1>1. Len(item.value) \in Nat
  BY LenProperties DEF Item, Text, Cell
<1>2. item.op = "name" => a < b
  BY DEF ItemAt, NamedAt
<1>3. item.op = "counted" => b = (a + 1) + Len(item.value)
  BY DEF ItemAt
<1>4. item.op \in {"numbers", "rest"} => b = a + Len(item.value)
  BY DEF ItemAt
<1>5. item.op = "counted" => a + 1 <= b
  <2>1. \A c, d, n \in Nat : d = (c + 1) + n => c + 1 <= d
    OBVIOUS
  <2> QED  BY <1>1, <1>3, <2>1
<1> QED  BY <1>2, <1>4, <1>5

(* The position is within the data.                                        *)
LEMMA PositionWithin ==
    ASSUME NEW N, NEW s, NEW R, NEW z, NEW x, OnField(N, s, R, z, x)
    PROVE  rr.cur <= rr.end
<1> DEFINE j == Len(rr.data)
           n == Len(R.data)
<1>1. /\ n \in Nat /\ j \in Nat /\ j <= n /\ rr.cur = x[j + 1] /\ rr.end = z
      /\ ItemsAt(packet, N, R.data, n, x) /\ x[n + 1] = z
  BY OnFieldTypes
<1> HIDE DEF j, n
<1>2. j + 1 \in 1 .. n + 1 /\ n + 1 \in 1 .. n + 1 /\ j + 1 <= n + 1
  BY <1>1
<1>3. x[j + 1] <= x[n + 1]
  BY <1>1, <1>2 DEF ItemsAt, Rising
<1> QED  BY <1>1, <1>3

(* What was looked for when the data was read first is there again.        *)
LEMMA LengthHolds ==
    ASSUME NEW N, NEW s, NEW R, NEW z, NEW x, OnField(N, s, R, z, x), rr.fields # <<>>, R.type # TypeTXT,
           Head(rr.fields).op \in {"need", "exactly"}
    PROVE  Enough
<1> DEFINE f == RDataFields(R.type)
<1>0. /\ R.type \in Nat /\ Fits(R.type, R.data) /\ rr.fields \in Seq(Fields) /\ rr.end = z /\ z \in Nat /\ rr.cur \in Nat
      /\ Shape(R.type, rr.fields, rr.data, rr.cur, rr.end) /\ Len(R.data) \in Nat
  BY OnFieldTypes
<1>1. PICK j \in Nat : j = Len(rr.data) /\ rr.cur = x[j + 1]
  BY OnFieldTypes, SMTT(30)
<1>2. PICK k \in Nat : AtHand(f, k, rr.fields, Tail(rr.fields), rr.data, rr.cur, rr.end)
  BY <1>0, FieldAtHand
<1>3. /\ Formed(f) /\ f \in Seq(Fields) /\ Len(f) \in Nat /\ k + 1 \in 1 .. Len(f) /\ k + 1 <= Len(f) /\ f[k + 1] = Head(rr.fields)
      /\ Count(f, k) = j
  BY <1>1, <1>2 DEF AtHand, Matched, Formed
<1>r. \A i \in Nat : i + 1 <= Len(f) /\ f[i + 1].op \notin {"need", "exactly"} =>
        /\ Count(f, i) + 1 <= Len(R.data) /\ FitsField(f, i + 1, R.data[Count(f, i) + 1])
        /\ Count(f, i + 1) = Count(f, i) + 1
        /\ i + 1 = Len(f) => Count(f, i) + 1 = Len(R.data)
  BY <1>0, FitsNext
<1> HIDE DEF f
<1>4. Count(f, k + 1) = j
  <2>1. k + 1 \notin Reading(f)
    BY <1>3, CountIs
  <2> QED  BY <1>3, <2>1, CountIs
<1> DEFINE n == f[k + 1].n
           p == k + 1
<1>5. n \in Nat /\ p \in Nat /\ p + 1 = k + 2 /\ p + 2 = k + 3 /\ (p + 1) + 1 = p + 2
  <2>1. f[k + 1] \in Fields
    BY <1>3, ElementOfSeq
  <2> QED  BY <2>1 DEF Fields
<1>6. ASSUME p + 1 <= Len(f), f[p + 1].op \notin {"need", "exactly"}
      PROVE  /\ j + 1 <= Len(R.data) /\ FitsField(f, p + 1, R.data[j + 1]) /\ Count(f, p + 1) = j + 1
             /\ p + 1 = Len(f) => j + 1 = Len(R.data)
             /\ R.data[j + 1] \in Item /\ ItemAt(packet, N, R.data[j + 1], x[j + 1], x[j + 2])
             /\ x[j + 1] \in Nat /\ x[j + 2] \in Nat /\ x[j + 2] <= z
             /\ j + 1 = Len(R.data) => x[j + 2] = z
  <2>1. Count(f, p) = j
    BY <1>4
  <2> HIDE DEF p
  <2>2. /\ j + 1 <= Len(R.data) /\ FitsField(f, p + 1, R.data[j + 1]) /\ Count(f, p + 1) = j + 1
        /\ p + 1 = Len(f) => j + 1 = Len(R.data)
    BY <1>5, <1>6, <1>r, <2>1
  <2> QED  BY <2>2, ItemIsThere
<1>7. CASE f[k + 1].op = "exactly"
  <2>1. p + 1 = Len(f) /\ f[p + 1].op = "rest"
    BY <1>3, <1>7 DEF Formed
  <2>2. p + 1 <= Len(f)
    BY <1>3, <2>1
  <2>3. /\ FitsField(f, p + 1, R.data[j + 1]) /\ R.data[j + 1] \in Item /\ ItemAt(packet, N, R.data[j + 1], x[j + 1], x[j + 2])
        /\ x[j + 1] \in Nat /\ x[j + 2] = z /\ x[j + 2] \in Nat
    BY <1>6, <2>1, <2>2
  <2>4. R.data[j + 1].op = "rest" /\ Len(R.data[j + 1].value) = n
    <3>1. p + 1 > 1 /\ (p + 1) - 1 = k + 1
      BY <1>5
    <3> HIDE DEF p
    <3> QED  BY <1>7, <2>1, <2>3, <3>1 DEF FitsField
  <2>5. z = x[j + 1] + n
    <3>1. x[j + 2] = x[j + 1] + Len(R.data[j + 1].value)
      BY <2>3, <2>4, ItemWidth
    <3> QED  BY <2>3, <2>4, <3>1
  <2>6. rr.cur + Head(rr.fields).n = rr.end
    BY <1>0, <1>1, <1>3, <2>5
  <2> QED  BY <1>3, <1>7, <2>6 DEF Enough, Field
<1>8. CASE f[k + 1].op = "need"
  <2>0. rr.cur + n <= z
    <3>1. Backed(f, p)
      BY <1>3, <1>8 DEF Formed
    <3>2. CASE f[p].n = 0
      <4>1. rr.cur <= z
        BY <1>0, PositionWithin
      <4> QED  BY <1>0, <3>2, <4>1
    <3>3. CASE p + 1 <= Len(f) /\ f[p + 1].op = "numbers" /\ f[p].n <= f[p + 1].n
      <4>1. /\ FitsField(f, p + 1, R.data[j + 1]) /\ R.data[j + 1] \in Item /\ ItemAt(packet, N, R.data[j + 1], x[j + 1], x[j + 2])
            /\ x[j + 1] \in Nat /\ x[j + 2] \in Nat /\ x[j + 2] <= z
        BY <1>6, <3>3
      <4> DEFINE a == f[p + 1].n
      <4>2. R.data[j + 1].op = "numbers" /\ Len(R.data[j + 1].value) = a
        BY <3>3, <4>1 DEF FitsField
      <4>3. x[j + 2] = x[j + 1] + a /\ a \in Nat
        <5>1. Len(R.data[j + 1].value) \in Nat
          BY <4>1, LenProperties DEF Item, Text, Cell
        <5> QED  BY <4>1, <4>2, <5>1, ItemWidth
      <4>4. n <= a
        BY <3>3
      <4> HIDE DEF a, n, p
      <4> QED  BY <1>0, <1>1, <1>5, <4>1, <4>3, <4>4
    <3>4. CASE /\ p + 2 <= Len(f) /\ f[p + 1].op = "numbers" /\ f[p].n <= f[p + 1].n + 1
               /\ f[p + 2].op \in {"name", "counted"}
      <4>0. p + 1 <= Len(f)
        BY <1>3, <1>5, <3>4
      <4>1. /\ FitsField(f, p + 1, R.data[j + 1]) /\ R.data[j + 1] \in Item /\ ItemAt(packet, N, R.data[j + 1], x[j + 1], x[j + 2])
            /\ x[j + 1] \in Nat /\ x[j + 2] \in Nat /\ x[j + 2] <= z /\ Count(f, p + 1) = j + 1
        BY <1>6, <3>4, <4>0
      <4> DEFINE a == f[p + 1].n
      <4>2. R.data[j + 1].op = "numbers" /\ Len(R.data[j + 1].value) = a
        BY <3>4, <4>1 DEF FitsField
      <4>3. x[j + 2] = x[j + 1] + a /\ a \in Nat
        <5>1. Len(R.data[j + 1].value) \in Nat
          BY <4>1, LenProperties DEF Item, Text, Cell
        <5> QED  BY <4>1, <4>2, <5>1, ItemWidth
      <4>4. n <= a + 1
        BY <3>4
      <4>5. PICK i \in Nat : i = j + 1
        OBVIOUS
      <4>6. i + 1 <= Len(R.data) /\ R.data[i + 1].op \in {"name", "counted"}
        <5>1. p + 1 \in Nat /\ (p + 1) + 1 <= Len(f) /\ f[(p + 1) + 1].op \notin {"need", "exactly"} /\ f[(p + 1) + 1].op = f[p + 2].op
          BY <1>5, <3>4
        <5> DEFINE o == p + 1
        <5>2. Count(f, o) = i
          BY <4>1, <4>5
        <5>3. o \in Nat /\ o + 1 <= Len(f) /\ f[o + 1].op \notin {"need", "exactly"} /\ f[o + 1].op \in {"name", "counted"}
          BY <3>4, <5>1
        <5> HIDE DEF o
        <5>4. i + 1 <= Len(R.data) /\ FitsField(f, o + 1, R.data[i + 1])
          BY <1>r, <5>2, <5>3
        <5> QED  BY <5>3, <5>4 DEF FitsField
      <4>7. /\ R.data[i + 1] \in Item /\ ItemAt(packet, N, R.data[i + 1], x[i + 1], x[i + 2])
            /\ x[i + 1] \in Nat /\ x[i + 2] \in Nat /\ x[i + 2] <= z
        BY <4>6, ItemIsThere
      <4>8. x[i + 1] + 1 <= x[i + 2]
        BY <4>6, <4>7, ItemWidth
      <4>9. x[i + 1] = x[j + 2]
        <5>1. i + 1 = j + 2
          BY <4>5
        <5> QED  BY <5>1
      <4> DEFINE c == x[j + 1]
                 d == x[j + 2]
                 e == x[i + 2]
      <4>10. c \in Nat /\ d \in Nat /\ e \in Nat /\ d = c + a /\ d + 1 <= e /\ e <= z /\ rr.cur = c
        BY <1>1, <4>1, <4>3, <4>7, <4>8, <4>9
      <4> HIDE DEF a, n, p, c, d, e
      <4>11. c + n <= z
        <5>1. \A c1, d1, e1, a1, n1, z1 \in Nat : d1 = c1 + a1 /\ d1 + 1 <= e1 /\ e1 <= z1 /\ n1 <= a1 + 1 => c1 + n1 <= z1
          OBVIOUS
        <5> QED  BY <1>0, <1>5, <4>3, <4>4, <4>10, <5>1
      <4> QED  BY <4>10, <4>11
    <3>5. CASE p + 1 <= Len(f) /\ f[p + 1].op = "counted" /\ f[p].n <= 1
      <4>1. /\ FitsField(f, p + 1, R.data[j + 1]) /\ R.data[j + 1] \in Item /\ ItemAt(packet, N, R.data[j + 1], x[j + 1], x[j + 2])
            /\ x[j + 1] \in Nat /\ x[j + 2] \in Nat /\ x[j + 2] <= z
        BY <1>6, <3>5
      <4>2. R.data[j + 1].op = "counted"
        BY <3>5, <4>1 DEF FitsField
      <4>3. x[j + 1] + 1 <= x[j + 2]
        BY <4>1, <4>2, ItemWidth
      <4>4. n <= 1
        BY <3>5
      <4> HIDE DEF n, p
      <4> QED  BY <1>0, <1>1, <1>5, <4>1, <4>3, <4>4
    <3> QED  BY <3>1, <3>2, <3>3, <3>4, <3>5 DEF Backed
  <2> QED  BY <1>0, <1>3, <1>8, <2>0 DEF Enough, Field
<1> QED  BY <1>3, <1>7, <1>8

-------------------------------------------------------------------------------

(* A step within the data ends the record or only goes on in it.           *)
LEMMA DataSteps ==
    ASSUME DOMAIN rr = {"name", "type", "start", "end", "cur", "fields", "data"}, parseRData, pc' # "panic"
    PROVE  \/ \E b \in BOOLEAN : EndRecord(b)
           \/ /\ UNCHANGED <<packet, left, msg>>
              /\ rr'.type = rr.type /\ rr'.name = rr.name /\ rr'.start = rr.start /\ rr'.end = rr.end
              /\ pc' = "field" \/ (pc' \in {"name", "badname"} /\ nm'.user = "rdata")
<1> DEFINE Goes == /\ UNCHANGED <<packet, left, msg>>
                   /\ rr'.type = rr.type /\ rr'.name = rr.name /\ rr'.start = rr.start /\ rr'.end = rr.end
                   /\ pc' = "field" \/ (pc' \in {"name", "badname"} /\ nm'.user = "rdata")
<1>1. CheckLength => EndRecord(FALSE) \/ Goes
  BY DEF CheckLength, AtField
<1>2. ReadNumbers => Goes
  BY DEF ReadNumbers, AtField, Took, Goto
<1>3. ReadName => Goes
  BY DEF ReadName, CallName, Goto, NoName
<1>4. EndRDataName => Goes
  BY DEF EndRDataName, Took, Goto
<1>5. ReadCounted => EndRecord(FALSE) \/ Goes
  BY DEF ReadCounted, AtField, Took, Goto
<1>6. ReadString => EndRecord(FALSE) \/ Goes
  BY DEF ReadString, AtField
<1>7. EndStrings => Goes
  BY DEF EndStrings, AtField
<1>8. ReadRest => Goes
  BY DEF ReadRest, AtField, Took, Goto
<1>9. EndFields => EndRecord(TRUE)
  BY DEF EndFields
<1> HIDE DEF Goes
<1>10. EndRecord(TRUE) \/ EndRecord(FALSE) \/ Goes
  BY <1>1, <1>2, <1>3, <1>4, <1>5, <1>6, <1>7, <1>8, <1>9 DEF parseRData
<1> QED  BY <1>10 DEF Goes

(* Data that was not understood before comes back as its cells, whatever   *)
(* is made of it on the way.                                               *)
LEMMA UnreadMoves ==
    ASSUME NEW N, NEW s, NEW R, NEW z, NEW x, Before(N, s), AtData(N, s), DataBody(N, s, R, z, x), ~R.parsed,
           parseRData, UNCHANGED sent, ReadInv', pc' # "panic"
    PROVE  Progress(N, s)'
<1>1. DOMAIN rr = {"name", "type", "start", "end", "cur", "fields", "data"}
  BY ShapeTypes DEF Before
<1>2. CASE \E b \in BOOLEAN : EndRecord(b)
  <2>1. ~NextR(sent, msg).parsed
    BY DEF DataBody
  <2> QED  BY <1>2, <2>1, RecordIsRead
<1>3. CASE /\ UNCHANGED <<packet, left, msg>>
           /\ rr'.type = rr.type /\ rr'.name = rr.name /\ rr'.start = rr.start /\ rr'.end = rr.end
           /\ pc' = "field" \/ (pc' \in {"name", "badname"} /\ nm'.user = "rdata")
  BY <1>3, DataMoves
<1> QED  BY <1>1, <1>2, <1>3, DataSteps

(* The cells of a value, read back.                                        *)
LEMMA CellsBack ==
    ASSUME packet \in Seq(Nat), NEW a \in Nat, NEW v \in Seq(Nat), CellsAt(packet, a, v), a + Len(v) <= Len(packet)
    PROVE  Cells(a, a + Len(v)) = v
<1> DEFINE n == Len(v)
           u == Cells(a, a + n)
<1>1. n \in Nat /\ a + n <= Len(packet) /\ \A i \in 1 .. n : packet[a + i] = v[i]
  BY LenProperties DEF CellsAt
<1> HIDE DEF n
<1>2. u \in Seq(Nat) /\ Len(u) = n /\ \A i \in 1 .. n : u[i] = packet[a + i]
  BY <1>1, CellsAre
<1> HIDE DEF u
<1>3. Len(u) = Len(v) /\ \A i \in 1 .. Len(u) : u[i] = v[i]
  BY <1>1, <1>2 DEF n
<1>4. u = v
  BY <1>2, <1>3, SeqEqual
<1> QED  BY <1>4 DEF u, n

(* What lies at the position, by the form of the item.                     *)
LEMMA ItemCells ==
    ASSUME NEW N, NEW s, NEW R, NEW z, NEW x, OnField(N, s, R, z, x), NEW j \in Nat, j + 1 <= Len(R.data),
           NEW item, item = R.data[j + 1]
    PROVE  /\ item.op \in {"numbers", "rest"} =>
                 x[j + 2] = x[j + 1] + Len(item.value) /\ Cells(x[j + 1], x[j + 2]) = item.value
           /\ item.op = "counted" =>
                 /\ At(x[j + 1]) = Len(item.value) /\ x[j + 2] = x[j + 1] + 1 + Len(item.value)
                 /\ Cells(x[j + 1] + 1, x[j + 2]) = item.value
<1>1. /\ item \in Item /\ ItemAt(packet, N, item, x[j + 1], x[j + 2]) /\ x[j + 1] \in Nat /\ x[j + 2] \in Nat
      /\ item.value \in Seq(Nat) /\ Len(item.value) \in Nat
  BY ItemIsThere
<1>2. packet \in Seq(Nat)
  BY OnFieldTypes
<1>3. PICK a \in Nat, b \in Nat, v \in Seq(Nat), n \in Nat : a = x[j + 1] /\ b = x[j + 2] /\ v = item.value /\ n = Len(v)
  BY <1>1
<1>4. ItemAt(packet, N, item, a, b)
  BY <1>1, <1>3
<1>5. CASE item.op \in {"numbers", "rest"}
  <2>1. b = a + n /\ CellsAt(packet, a, v) /\ b <= Len(packet)
    BY <1>3, <1>4, <1>5 DEF ItemAt
  <2>2. Cells(a, b) = v
    BY <1>2, <1>3, <2>1, CellsBack
  <2> QED  BY <1>3, <1>5, <2>1, <2>2
<1>6. CASE item.op = "counted"
  <2>1. b = (a + 1) + n /\ packet[a + 1] = n /\ CellsAt(packet, a + 1, v) /\ b <= Len(packet)
    BY <1>3, <1>4, <1>6 DEF ItemAt
  <2>2. Cells(a + 1, b) = v
    <3>1. PICK c \in Nat : c = a + 1
      OBVIOUS
    <3>2. Cells(c, c + Len(v)) = v
      BY <1>2, <1>3, <2>1, <3>1, CellsBack, SMTT(30)
    <3> QED  BY <1>3, <2>1, <3>1, <3>2
  <2>3. At(a) = n
    BY <2>1 DEF At
  <2> QED  BY <1>3, <1>6, <2>1, <2>2, <2>3
<1>7. CASE item.op \notin {"numbers", "rest", "counted"}
  BY <1>7
<1> QED  BY <1>5, <1>6, <1>7

(* A field was taken that is the same.                                     *)
LEMMA TookSame ==
    ASSUME NEW N, NEW s, NEW R, NEW z, NEW x, OnField(N, s, R, z, x), UNCHANGED <<packet, left, msg, sent>>,
           R.type # TypeTXT, NEW op, NEW value, NEW to, Took(op, value, to), [op |-> op, value |-> value] \in Item,
           Len(rr.data) + 1 <= Len(R.data), SameItem(R.data[Len(rr.data) + 1], [op |-> op, value |-> value]),
           to = x[Len(rr.data) + 2], pc' = "field"
    PROVE  Progress(N, s)'
<1>1. DOMAIN rr = {"name", "type", "start", "end", "cur", "fields", "data"} /\ rr.type = R.type
  BY OnFieldTypes
<1>2. PICK item \in Item : item = [op |-> op, value |-> value]
  OBVIOUS
<1>3. rr' = [rr EXCEPT !.fields = Tail(@), !.cur = to, !.data = Append(@, item)]
  BY <1>2 DEF Took
<1>4. /\ rr'.type = rr.type /\ rr'.name = rr.name /\ rr'.start = rr.start /\ rr'.end = rr.end
      /\ rr'.data = Append(rr.data, item) /\ rr'.cur = to
  BY <1>1, <1>3
<1>5. SameItem(R.data[Len(rr.data) + 1], item) /\ rr'.cur = x[Len(rr.data) + 2] /\ (rr'.type = TypeTXT => rr'.fields # <<>>)
  BY <1>1, <1>2, <1>4
<1> QED  BY <1>4, <1>5, ItemIsRead

(* The length suffices again.                                              *)
LEMMA LengthChecked ==
    ASSUME NEW N, NEW s, NEW R, NEW z, NEW x, OnField(N, s, R, z, x), CheckLength, UNCHANGED sent
    PROVE  Progress(N, s)'
<1>1. pc = "field" /\ rr.fields # <<>> /\ Head(rr.fields).op \in {"need", "exactly"}
  BY DEF CheckLength, AtField, Field
<1>2. R.type # TypeTXT /\ rr.type = R.type
  BY <1>1, FieldsOfTXT, OnFieldTypes DEF OnField
<1>3. Enough
  BY <1>1, <1>2, LengthHolds
<1>4. rr' = [rr EXCEPT !.fields = Tail(@)] /\ UNCHANGED <<packet, pc, off, left, nm, msg>>
  BY <1>3 DEF CheckLength
<1> QED  BY <1>1, <1>2, <1>4, FieldIsPassed

(* Numbers are read as they were written.                                  *)
LEMMA NumbersAreRead ==
    ASSUME NEW N, NEW s, NEW R, NEW z, NEW x, OnField(N, s, R, z, x), ReadNumbers, UNCHANGED sent, pc' # "panic"
    PROVE  Progress(N, s)'
<1>1. pc = "field" /\ rr.fields # <<>> /\ Head(rr.fields).op = "numbers" /\ UNCHANGED <<packet, left, msg, sent>>
  BY DEF ReadNumbers, AtField, Field
<1>2. R.type # TypeTXT /\ rr.type = R.type
  BY <1>1, FieldsOfTXT, OnFieldTypes DEF OnField
<1>3. PICK j \in Nat : j = Len(rr.data) /\ rr.cur = x[j + 1]
  BY OnFieldTypes
<1>4. /\ j + 1 <= Len(R.data) /\ R.data[j + 1].op = "numbers" /\ Len(R.data[j + 1].value) = Head(rr.fields).n
  BY <1>1, <1>2, <1>3, FieldIsNext
<1>5. x[j + 2] = rr.cur + Head(rr.fields).n /\ Cells(rr.cur, rr.cur + Head(rr.fields).n) = R.data[j + 1].value
  BY <1>3, <1>4, ItemCells
<1>6. R.data[j + 1] \in Item
  BY <1>4, ItemIsThere
<1>7. Took("numbers", R.data[j + 1].value, x[j + 2]) /\ pc' = "field"
  BY <1>1, <1>5 DEF ReadNumbers, Field, Goto
<1>8. [op |-> "numbers", value |-> R.data[j + 1].value] \in Item
  BY <1>6 DEF Item
<1>9. SameItem(R.data[j + 1], [op |-> "numbers", value |-> R.data[j + 1].value])
  BY <1>4 DEF SameItem
<1> QED  BY <1>1, <1>2, <1>3, <1>4, <1>7, <1>8, <1>9, TookSame

(* The rest of the data is read as it was written.                         *)
LEMMA RestIsRead ==
    ASSUME NEW N, NEW s, NEW R, NEW z, NEW x, OnField(N, s, R, z, x), ReadRest, UNCHANGED sent, pc' # "panic"
    PROVE  Progress(N, s)'
<1>1. pc = "field" /\ rr.fields # <<>> /\ Head(rr.fields).op = "rest" /\ UNCHANGED <<packet, left, msg, sent>>
  BY DEF ReadRest, AtField, Field
<1>2. R.type # TypeTXT /\ rr.type = R.type
  BY <1>1, FieldsOfTXT, OnFieldTypes DEF OnField
<1>3. PICK j \in Nat : j = Len(rr.data) /\ rr.cur = x[j + 1] /\ rr.end = z
  BY OnFieldTypes
<1>4. j + 1 <= Len(R.data) /\ R.data[j + 1].op = "rest" /\ j + 1 = Len(R.data)
  BY <1>1, <1>2, <1>3, FieldIsNext
<1>5. R.data[j + 1] \in Item /\ x[j + 2] = z
  BY <1>4, ItemIsThere
<1>6. Cells(rr.cur, rr.end) = R.data[j + 1].value /\ rr.end = x[j + 2]
  BY <1>3, <1>4, <1>5, ItemCells
<1>7. Took("rest", R.data[j + 1].value, x[j + 2]) /\ pc' = "field"
  BY <1>1, <1>6 DEF ReadRest, Goto
<1>8. [op |-> "rest", value |-> R.data[j + 1].value] \in Item
  BY <1>5 DEF Item
<1>9. SameItem(R.data[j + 1], [op |-> "rest", value |-> R.data[j + 1].value])
  BY <1>4 DEF SameItem
<1> QED  BY <1>1, <1>2, <1>3, <1>4, <1>7, <1>8, <1>9, TookSame

(* A counted string is read as it was written.                             *)
LEMMA CountedIsRead ==
    ASSUME NEW N, NEW s, NEW R, NEW z, NEW x, OnField(N, s, R, z, x), ReadCounted, UNCHANGED sent, pc' # "panic"
    PROVE  Progress(N, s)'
<1>1. pc = "field" /\ rr.fields # <<>> /\ Head(rr.fields).op = "counted"
  BY DEF ReadCounted, AtField, Field
<1>2. R.type # TypeTXT /\ rr.type = R.type
  BY <1>1, FieldsOfTXT, OnFieldTypes DEF OnField
<1>3. PICK j \in Nat : j = Len(rr.data) /\ rr.cur = x[j + 1] /\ rr.end = z
  BY OnFieldTypes
<1>4. j + 1 <= Len(R.data) /\ R.data[j + 1].op = "counted"
  BY <1>1, <1>2, <1>3, FieldIsNext
<1>5. R.data[j + 1] \in Item /\ x[j + 2] <= z /\ x[j + 2] \in Nat /\ z \in Nat
  BY <1>4, ItemIsThere, OnFieldTypes
<1>6. rr.cur + 1 + At(rr.cur) = x[j + 2] /\ Cells(rr.cur + 1, rr.cur + 1 + At(rr.cur)) = R.data[j + 1].value
  BY <1>3, <1>4, ItemCells
<1>7. Took("counted", R.data[j + 1].value, x[j + 2]) /\ pc' = "field" /\ UNCHANGED <<packet, left, msg, sent>>
  <2>1. ~(rr.cur + 1 + At(rr.cur) > rr.end)
    BY <1>3, <1>5, <1>6
  <2> QED  BY <1>1, <1>6, <2>1 DEF ReadCounted, Goto
<1>8. [op |-> "counted", value |-> R.data[j + 1].value] \in Item
  BY <1>5 DEF Item
<1>9. SameItem(R.data[j + 1], [op |-> "counted", value |-> R.data[j + 1].value])
  BY <1>4 DEF SameItem
<1> QED  BY <1>1, <1>2, <1>3, <1>4, <1>7, <1>8, <1>9, TookSame

-------------------------------------------------------------------------------

(* A name in the data is begun.                                            *)
LEMMA DataNameBegins ==
    ASSUME NEW N, NEW s, NEW R, NEW z, NEW x, OnField(N, s, R, z, x), ReadName, UNCHANGED sent
    PROVE  Progress(N, s)'
<1>1. /\ pc = "field" /\ rr.fields # <<>> /\ Head(rr.fields).op = "name" /\ UNCHANGED <<packet, rr, left, msg, sent>>
      /\ CallName("rdata", rr.cur)
  BY DEF ReadName, AtField, Field
<1>2. R.type # TypeTXT /\ rr.type = R.type /\ packet \in Seq(Nat) /\ rr.cur \in Nat
  BY <1>1, FieldsOfTXT, OnFieldTypes DEF OnField
<1>3. PICK j \in Nat, p \in Nat : j = Len(rr.data) /\ p = rr.cur /\ p = x[j + 1]
  BY OnFieldTypes
<1>4. j + 1 <= Len(R.data) /\ R.data[j + 1].op = "name" /\ Len(R.data) \in Nat
  <2>1. j + 1 <= Len(R.data) /\ R.data[j + 1].op = "name"
    BY <1>1, <1>2, <1>3, FieldIsNext
  <2> QED  BY <2>1, OnFieldTypes
<1>5. PICK item \in Item, to \in Nat : /\ item = R.data[j + 1] /\ to = x[j + 2]
                                      /\ ItemAt(packet, N, item, x[j + 1], x[j + 2]) /\ item.value \in Seq(Nat)
  BY <1>4, ItemIsThere
<1>6. NamedAt(packet, N, p, item.value, to)
  BY <1>3, <1>4, <1>5 DEF ItemAt
<1>7. NameProgress(N, item.value, to)' /\ pc' = "name" /\ nm'.user = "rdata"
  BY <1>1, <1>2, <1>3, <1>5, <1>6, NameCalled
<1>8. Writable(SplitQName(item.value)) /\ j < Len(R.data)
  BY <1>3, <1>4, <1>6 DEF NamedAt
<1>9. FieldsRead(N, R.data, x)
  BY OnFieldTypes
<1>10. FieldsRead(N, R.data, x)'
  BY <1>1, <1>3, <1>4, <1>5, <1>7, <1>8, <1>9 DEF FieldsRead
<1>11. DataBody(N, s, R, z, x)
  BY DEF OnField
<1> QED  BY <1>1, <1>7, <1>10, <1>11, DataMoves

(* A name in the data has been read.                                       *)
LEMMA DataNameEnds ==
    ASSUME NEW N, NEW s, NEW R, NEW z, NEW x, OnField(N, s, R, z, x), EndRDataName, UNCHANGED sent
    PROVE  Progress(N, s)'
<1>1. /\ pc = "named" /\ nm.user = "rdata" /\ Took("name", Join(nm.labels), nm.next) /\ pc' = "field"
      /\ UNCHANGED <<packet, left, msg, sent>> /\ InName
  BY DEF EndRDataName, Goto, InName
<1>2. IInv /\ ReadInv /\ ShapeNow /\ FieldsRead(N, R.data, x) /\ rr.type = R.type
  BY OnFieldTypes DEF OnField
<1>3. rr.fields # <<>> /\ Head(rr.fields).op = "name" /\ nm.labels \in LabelLists
  <2>1. rr.fields # <<>> /\ rr.fields[1].op = "name"
    BY <1>1, <1>2 DEF IInv
  <2> QED  BY <1>2, <2>1, ShapeTypes DEF NameType, LabelLists
<1>4. R.type # TypeTXT
  BY <1>2, <1>3, FieldsOfTXT
<1>5. PICK item \in Item, to \in Nat :
          /\ Len(rr.data) < Len(R.data) /\ item = R.data[Len(rr.data) + 1] /\ item.op = "name" /\ to = x[Len(rr.data) + 2]
          /\ Writable(SplitQName(item.value)) /\ NameProgress(N, item.value, to)
  BY <1>1, <1>2 DEF FieldsRead
<1>6. SameLabels(SplitQName(item.value), nm.labels) /\ nm.next = to
  BY <1>1, <1>5 DEF NameProgress
<1>7. SameName(item.value, Join(nm.labels))
  <2>1. item.value \in Seq(Nat)
    BY DEF Item, Text, Cell
  <2> QED  BY <1>3, <1>6, <2>1, NameIsRead
<1>8. [op |-> "name", value |-> Join(nm.labels)] \in Item
  <2>1. Join(nm.labels) \in Text
    BY <1>3, JoinType DEF LabelLists, Text, Cell
  <2> QED  BY <2>1 DEF Item
<1>9. SameItem(R.data[Len(rr.data) + 1], [op |-> "name", value |-> Join(nm.labels)])
  BY <1>5, <1>7 DEF SameItem
<1>10. Len(rr.data) + 1 <= Len(R.data)
  BY <1>5, OnFieldTypes
<1>11. nm.next = x[Len(rr.data) + 2]
  BY <1>5, <1>6
<1> QED  BY <1>1, <1>4, <1>8, <1>9, <1>10, <1>11, TookSame

(* A text has strings, and they end where the data ends.                   *)
LEMMA TextHasStrings ==
    ASSUME NEW N, NEW s, NEW R, NEW z, NEW x, OnField(N, s, R, z, x), R.type = TypeTXT
    PROVE  LET j == Len(rr.data) IN
           IF rr.cur < rr.end THEN j + 1 <= Len(R.data) /\ R.data[j + 1].op = "counted" ELSE j = Len(R.data)
<1>1. PICK j \in Nat, n \in Nat : j = Len(rr.data) /\ n = Len(R.data) /\ rr.cur = x[j + 1] /\ rr.end = z /\ j <= n
                                 /\ x[n + 1] = z /\ z \in Nat /\ rr.cur \in Nat
  BY OnFieldTypes, SMTT(30)
<1>2. \A i \in 1 .. n : R.data[i].op = "counted"
  <2>1. Fits(R.type, R.data) /\ R.data \in Seq(Item)
    BY OnFieldTypes
  <2>2. DOMAIN R.data = 1 .. n
    BY <1>1, <2>1, LenProperties
  <2> QED  BY <2>1, <2>2 DEF Fits
<1>3. CASE j = n
  <2>1. rr.cur = z
    BY <1>1, <1>3
  <2> QED  BY <1>1, <1>3, <2>1
<1>4. CASE j < n
  <2>1. j + 1 <= Len(R.data) /\ j + 1 \in 1 .. n
    BY <1>1, <1>4
  <2>2. R.data[j + 1].op = "counted"
    BY <1>2, <2>1
  <2>3. /\ R.data[j + 1] \in Item /\ ItemAt(packet, N, R.data[j + 1], x[j + 1], x[j + 2]) /\ x[j + 1] \in Nat /\ x[j + 2] \in Nat
        /\ x[j + 2] <= z
    BY <2>1, ItemIsThere
  <2>4. x[j + 1] + 1 <= x[j + 2]
    BY <2>2, <2>3, ItemWidth
  <2>5. rr.cur < rr.end
    <3>1. \A a, b, c \in Nat : a + 1 <= b /\ b <= c => a < c
      OBVIOUS
    <3> QED  BY <1>1, <2>3, <2>4, <3>1
  <2> QED  BY <1>1, <2>1, <2>2, <2>5
<1> QED  BY <1>1, <1>3, <1>4

(* A string of a text is read as it was written.                           *)
LEMMA StringIsRead ==
    ASSUME NEW N, NEW s, NEW R, NEW z, NEW x, OnField(N, s, R, z, x), ReadString, UNCHANGED sent
    PROVE  Progress(N, s)'
<1>1. pc = "field" /\ rr.fields # <<>> /\ Head(rr.fields).op = "strings" /\ rr.cur < rr.end
  BY DEF ReadString, AtField, Field
<1>2. /\ R.type = TypeTXT /\ rr.type = R.type
      /\ DOMAIN rr = {"name", "type", "start", "end", "cur", "fields", "data"}
  BY <1>1, FieldsOfTXT, OnFieldTypes DEF OnField
<1>3. PICK j \in Nat : j = Len(rr.data) /\ rr.cur = x[j + 1] /\ rr.end = z
  BY OnFieldTypes
<1>4. j + 1 <= Len(R.data) /\ R.data[j + 1].op = "counted"
  BY <1>1, <1>2, <1>3, TextHasStrings
<1>5. R.data[j + 1] \in Item /\ x[j + 2] <= z /\ x[j + 2] \in Nat /\ z \in Nat
  BY <1>4, ItemIsThere, OnFieldTypes
<1>6. StringEnd(rr.cur) = x[j + 2] /\ Cells(rr.cur + 1, StringEnd(rr.cur)) = R.data[j + 1].value
  BY <1>3, <1>4, ItemCells DEF StringEnd
<1>7. PICK item \in Item : item = [op |-> "counted", value |-> R.data[j + 1].value]
  BY <1>5 DEF Item
<1>8. rr' = [rr EXCEPT !.cur = x[j + 2], !.data = Append(@, item)] /\ pc' = "field" /\ UNCHANGED <<packet, left, msg, sent>>
  <2>1. ~(StringEnd(rr.cur) > rr.end)
    BY <1>3, <1>5, <1>6
  <2> QED  BY <1>1, <1>6, <1>7, <2>1 DEF ReadString
<1>9. SameItem(R.data[j + 1], item)
  BY <1>4, <1>7 DEF SameItem
<1>10. /\ rr'.type = rr.type /\ rr'.name = rr.name /\ rr'.start = rr.start /\ rr'.end = rr.end
       /\ rr'.data = Append(rr.data, item) /\ rr'.cur = x[j + 2] /\ rr'.fields = rr.fields
  BY <1>2, <1>8
<1> QED  BY <1>1, <1>3, <1>4, <1>8, <1>9, <1>10, ItemIsRead

(* The strings end with the data.                                          *)
LEMMA StringsEnd ==
    ASSUME NEW N, NEW s, NEW R, NEW z, NEW x, OnField(N, s, R, z, x), EndStrings, UNCHANGED sent
    PROVE  Progress(N, s)'
<1>1. /\ pc = "field" /\ rr.fields # <<>> /\ Head(rr.fields).op = "strings" /\ rr.cur >= rr.end
      /\ rr' = [rr EXCEPT !.fields = Tail(@)] /\ UNCHANGED <<packet, pc, left, msg, sent>>
  BY DEF EndStrings, AtField, Field
<1>2. R.type = TypeTXT /\ rr.cur \in Nat /\ rr.end \in Nat
  BY <1>1, FieldsOfTXT, OnFieldTypes DEF OnField
<1>3. ~(rr.cur < rr.end)
  BY <1>1, <1>2
<1>4. Len(rr.data) = Len(R.data)
  BY <1>2, <1>3, TextHasStrings
<1> QED  BY <1>1, <1>4, FieldIsPassed

(* All the fields were read.                                               *)
LEMMA FieldsAreRead ==
    ASSUME NEW N, NEW s, NEW R, NEW z, NEW x, OnField(N, s, R, z, x), AtData(N, s), EndFields, UNCHANGED sent, ReadInv'
    PROVE  Progress(N, s)'
<1>1. rr.fields = <<>> /\ EndRecord(TRUE)
  BY DEF EndFields
<1>2. /\ R.type \in Nat /\ rr.type = R.type /\ FieldsRead(N, R.data, x) /\ Fits(R.type, R.data)
      /\ Shape(R.type, rr.fields, rr.data, rr.cur, rr.end)
  BY OnFieldTypes
<1>3. Len(rr.data) = Len(R.data)
  <2>1. CASE R.type = TypeTXT
    BY <1>1, <1>2, <2>1 DEF FieldsRead
  <2>2. CASE R.type # TypeTXT
    <3> DEFINE f == RDataFields(R.type)
    <3>1. f \in Seq(Fields)
      BY <1>2, <2>2, FieldsAreFormed DEF Formed
    <3>2. Len(f) \in Nat /\ Count(f, Len(f)) = Cardinality(Reading(f))
      BY <3>1, CountIs
    <3>3. Len(rr.fields) = 0
      BY <1>1, TextTypes
    <3>4. Matched(f, Len(f) - Len(rr.fields), rr.data) /\ Len(R.data) = Cardinality(Reading(f))
      BY <1>2, <2>2 DEF Shape, Fits
    <3> HIDE DEF f
    <3>5. Len(f) - Len(rr.fields) = Len(f)
      BY <3>2, <3>3
    <3>6. Len(rr.data) = Count(f, Len(f))
      BY <3>4, <3>5 DEF Matched
    <3> QED  BY <3>2, <3>4, <3>6
  <2> QED  BY <2>1, <2>2
<1>4. Before(N, s) /\ R = NextR(sent, msg)
  BY DEF OnField, DataBody
<1> QED  BY <1>1, <1>3, <1>4, RecordIsRead

(* A step of parseRData.                                                   *)
LEMMA DataAdvances ==
    ASSUME NEW N, NEW s, Before(N, s), parseRData, UNCHANGED sent, ReadInv', pc' # "panic"
    PROVE  Progress(N, s)'
<1>1. ReadingData
  BY DEF ReadingData, InName, parseRData, CheckLength, ReadNumbers, ReadName, EndRDataName, ReadCounted, ReadString,
         EndStrings, ReadRest, EndFields, AtField
<1>2. AtData(N, s) /\ ShapeNow
  BY <1>1 DEF Before, Progress, ShapeInv
<1>3. PICK R, z, x : DataBody(N, s, R, z, x)
  BY <1>2 DEF AtData, DataBody
<1>4. CASE ~R.parsed
  BY <1>2, <1>3, <1>4, UnreadMoves
<1>5. CASE R.parsed
  <2>1. OnField(N, s, R, z, x)
    BY <1>2, <1>3, <1>5 DEF OnField
  <2> QED  BY <1>2, <2>1, LengthChecked, NumbersAreRead, DataNameBegins, DataNameEnds, CountedIsRead, StringIsRead,
              StringsEnd, RestIsRead, FieldsAreRead DEF parseRData
<1> QED  BY <1>4, <1>5

(* Every step of Decode keeps to what was written.                         *)
LEMMA DecodeAdvances ==
    ASSUME NEW N, NEW s, Before(N, s), Next, UNCHANGED sent, ReadInv', pc' # "panic"
    PROVE  Progress(N, s)'
BY HeaderIsRead, QuestionBegins, RecordBegins, DecodingFinishes, NameAdvances, BadNameEnds, QuestionIsRead, DataIsReached,
   DataAdvances DEF Next, decodeName, NameStep

-------------------------------------------------------------------------------

(* The invariant of the whole trip: what was decoded has the form of its   *)
(* types, what was encoded lies in the buffer part by part, and Decode at  *)
(* the other end is on its way through it.                                 *)
KeepInv ==
    /\ TripInv /\ ShapeInv /\ WellFormed(sent)
    /\ AsciiNames(sent) => LayInv
    /\ AsciiNames(sent) /\ trip = "again" => \E N, s : Whole(packet, N, sent, s) /\ Progress(N, s)

(* Nothing has been written at the start, and what is composed is formed.  *)
LEMMA KeepStarts == TripInit => KeepInv
<1> SUFFICES ASSUME TripInit  PROVE KeepInv
  OBVIOUS
<1>1. TripInv
  BY TripStarts
<1>2. epc = "idle" /\ sent = NoMessage
  BY DEF TripInit, EncoderInit
<1>3. LayInv
  BY <1>2 DEF LayInv
<1>4. WellFormed(sent)
  BY <1>2 DEF NoMessage, WellFormed
<1>5. ShapeInv /\ trip # "again"
  <2>1. CASE Init /\ trip = "arrives"
    BY <2>1 DEF Init, NothingRead, ShapeInv, WellFormed, ReadingData, InName
  <2>2. CASE trip = "composed" /\ msg \in Messages /\ pc = "done"
    BY <2>2, MessagesAssumption DEF ShapeInv, ReadingData, InName
  <2> QED  BY <2>1, <2>2 DEF TripInit
<1> QED  BY <1>1, <1>3, <1>4, <1>5 DEF KeepInv

(* What Encode left when it ended is the whole message.                    *)
LEMMA EncodedIsWhole ==
    ASSUME KeepInv, AsciiNames(sent), epc = "encoded"
    PROVE  \E N, s : Whole(w.buf, N, sent, s)
<1>1. PICK N, s, k : AtPart(N, s, k)
  BY DEF KeepInv, LayInv
<1> DEFINE n == Len(sent.questions) + Len(sent.records)
<1>2. k = n /\ Len(w.buf) <= MaxPacketLen /\ Laid(w, N, sent, n, s) /\ s[n + 1] = Len(w.buf)
  BY <1>1 DEF AtPart
<1> HIDE DEF n
<1>3. /\ NamesOK(w.buf, N) /\ PartsAt(w.buf, N, sent, n, s) /\ 2 <= Len(w.buf)
      /\ w.buf[1] = Len(sent.questions) /\ w.buf[2] = Len(sent.records)
  BY <1>2 DEF Laid, Found
<1>4. WellFormed(sent)
  BY DEF KeepInv
<1> QED  BY <1>2, <1>3, <1>4 DEF Whole, n

(* A step that changes nothing Decode keeps.                               *)
LEMMA NothingMoves ==
    ASSUME NEW N, NEW s, Progress(N, s), UNCHANGED <<packet, pc, off, left, nm, rr, msg, sent>>
    PROVE  Progress(N, s)'
<1>1. Size' = Size /\ InName' = InName /\ ReadingData' = ReadingData
  BY DEF Size, InName, ReadingData
<1>2. \A text, e : NameProgress(N, text, e)' <=> NameProgress(N, text, e)
  BY DEF NameProgress, NameAt
<1>3. AtQuestion(N, s)' <=> AtQuestion(N, s)
  BY <1>1, <1>2 DEF AtQuestion
<1>4. \A R, z, x : DataAt(N, R, z, x)' <=> DataAt(N, R, z, x)
  BY <1>1 DEF DataAt
<1>5. AtRecord(N, s)' <=> AtRecord(N, s)
  BY <1>1, <1>2, <1>4 DEF AtRecord
<1>6. \A data, x : FieldsRead(N, data, x)' <=> FieldsRead(N, data, x)
  BY <1>1, <1>2 DEF FieldsRead
<1>7. AtData(N, s)' <=> AtData(N, s)
  BY <1>1, <1>4, <1>6 DEF AtData
<1> QED  BY <1>1, <1>3, <1>5, <1>7 DEF Progress

(* Every step of the trip keeps the invariant.                             *)
LEMMA KeepStep == KeepInv /\ [TripNext]_allVars => KeepInv'
<1> SUFFICES ASSUME KeepInv, [TripNext]_allVars  PROVE KeepInv'
  OBVIOUS
<1>i. /\ TripInv /\ TripInv' /\ ShapeInv /\ WellFormed(sent) /\ IInv /\ ReadInv /\ WriteInv /\ sent \in Message
      /\ AsciiNames(sent) => LayInv
  <2>1. TripInv
    BY DEF KeepInv
  <2> QED  BY <2>1, TripStep DEF KeepInv, TripInv, WriteInv
<1>k. ASSUME UNCHANGED encoderVars  PROVE (AsciiNames(sent') => LayInv') /\ WellFormed(sent)'
  <2>1. UNCHANGED <<epc, sent, todo, lenPos, w>>
    BY <1>k DEF encoderVars
  <2>2. AsciiNames(sent') => LayInv'
    <3>1. \A N, s, n : AtPart(N, s, n)' <=> AtPart(N, s, n)
      BY <2>1 DEF AtPart
    <3>2. RecordAtHand' = RecordAtHand
      BY <2>1 DEF RecordAtHand
    <3>3. \A N, s, n, x, j : InData(N, s, n, x, j)' <=> InData(N, s, n, x, j)
      BY <2>1, <3>2 DEF InData
    <3> QED  BY <1>i, <2>1, <3>1, <3>3 DEF LayInv
  <2> QED  BY <1>i, <2>1, <2>2
<1>v. ASSUME UNCHANGED vars  PROVE ShapeInv'
  BY <1>i, <1>v, ShapeStep
<1>1. CASE DecodeStep
  <2>1. Next /\ UNCHANGED <<encoderVars, trip>> /\ UNCHANGED sent
    BY <1>1 DEF DecodeStep, encoderVars
  <2>2. UNCHANGED packet
    BY <2>1 DEF Next, DecodeHeader, NextQuestion, NextRecord, Finish, decodeName, FollowPointer, ReadLabel,
          NameEnds, NameFails, BadName, EndQuestion, StartRecord, parseRData, CheckLength, ReadNumbers, ReadName,
          EndRDataName, ReadCounted, ReadString, EndStrings, ReadRest, EndFields, EndRecord
  <2>3. ShapeInv'
    BY <1>i, <2>1, ShapeStep
  <2>4. ASSUME trip' = "again", AsciiNames(sent')  PROVE \E N, s : Whole(packet', N, sent', s) /\ Progress(N, s)'
    <3>1. PICK N, s : Whole(packet, N, sent, s) /\ Progress(N, s)
      BY <2>1, <2>4 DEF KeepInv
    <3>2. Before(N, s)
      BY <1>i, <3>1 DEF Before
    <3>3. ReadInv' /\ pc' # "panic"
      BY <1>i DEF TripInv, IInv
    <3>4. Progress(N, s)'
      BY <2>1, <3>2, <3>3, DecodeAdvances
    <3> QED  BY <2>1, <2>2, <3>1, <3>4
  <2> QED  BY <1>i, <1>k, <2>1, <2>3, <2>4 DEF KeepInv
<1>2. CASE SendOn
  <2>1. trip' = "encode" /\ StartEncode(msg) /\ UNCHANGED vars /\ sent' = msg
    BY <1>2 DEF SendOn, StartEncode
  <2>2. LayInv'
    BY <1>i, <2>1, LayStarts DEF ReadInv
  <2>3. WellFormed(sent')
    BY <1>i, <2>1 DEF ShapeInv
  <2> QED  BY <1>i, <1>v, <2>1, <2>2, <2>3 DEF KeepInv
<1>3. CASE EncodeStep
  <2>1. EncoderNext /\ UNCHANGED vars /\ UNCHANGED trip
    BY <1>3 DEF EncodeStep
  <2>3. epc # "encoded" /\ sent' = sent
    BY <2>1 DEF EncoderNext, EncodeQuestion, EndQuestions, EncodeResourceRecord, EncodeRData, SetLength, EndEncode, Write
  <2>2. AsciiNames(sent') => LayInv'
    BY <1>i, <2>1, <2>3, LayKept
  <2>4. trip # "again"
    BY <1>i, <2>3 DEF TripInv
  <2> QED  BY <1>i, <1>v, <2>1, <2>2, <2>3, <2>4 DEF KeepInv
<1>4. CASE Receive
  <2>1. /\ epc = "encoded" /\ packet' = w.buf /\ UNCHANGED encoderVars /\ UNCHANGED sent /\ pc' = "start" /\ msg' = NothingRead
    BY <1>4 DEF Receive, encoderVars
  <2>2. AsciiNames(sent') => \E N, s : Whole(packet', N, sent', s)
    BY <2>1, EncodedIsWhole
  <2>3. \A N, s : Progress(N, s)'
    BY <2>1 DEF Progress, InName, ReadingData
  <2>4. ShapeInv'
    BY <2>1 DEF NothingRead, ShapeInv, WellFormed, ReadingData, InName
  <2> QED  BY <1>i, <1>k, <2>1, <2>2, <2>3, <2>4 DEF KeepInv
<1>5. CASE UNCHANGED allVars
  <2>1. UNCHANGED vars /\ UNCHANGED encoderVars /\ UNCHANGED trip
    BY <1>5 DEF allVars
  <2>2. UNCHANGED <<packet, pc, off, left, nm, rr, msg, sent>>
    BY <2>1 DEF vars, encoderVars
  <2>3. ASSUME trip = "again", AsciiNames(sent)  PROVE \E N, s : Whole(packet', N, sent', s) /\ Progress(N, s)'
    <3>1. PICK N, s : Whole(packet, N, sent, s) /\ Progress(N, s)
      BY <2>3 DEF KeepInv
    <3>2. Progress(N, s)'
      BY <2>2, <3>1, NothingMoves
    <3> QED  BY <2>2, <3>1, <3>2
  <2> QED  BY <1>i, <1>k, <1>v, <2>1, <2>2, <2>3 DEF KeepInv
<1> QED  BY <1>1, <1>2, <1>3, <1>4, <1>5 DEF TripNext

(* What was encoded decodes to the same message at the other end, for      *)
(* every packet that arrives and every message the server composes, as far *)
(* as its names are ASCII, and any limits.                                 *)
THEOREM WhatIsSentArrives == TripSpec => []RoundTripKeeps
<1>1. KeepInv => RoundTripKeeps
  BY DEF KeepInv, Progress, RoundTripKeeps
<1> QED  BY <1>1, KeepStarts, KeepStep, PTL DEF TripSpec

===============================================================================
