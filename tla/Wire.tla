-------------------------------- MODULE Wire --------------------------------
(***************************************************************************)
(* The wire format of internal/protocol: names, their compression, and the *)
(* fields of a record's data by type.                                      *)
(*                                                                         *)
(* A packet is a sequence of cells.  An octet of a name is a cell, and so  *)
(* is every number whatever its width, since no decision depends on how a  *)
(* number is laid out; an address is one cell too.  What nothing is        *)
(* decided by (the id and flags of the header, classes, times to live) is  *)
(* left out: a header is the two counts, a question ends in its type, a    *)
(* record's name is followed by its type and the length of its data.  The  *)
(* three sections of records are read and written by the same loop and     *)
(* are one sequence here.  Offsets count from 0, as in the code.           *)
(***************************************************************************)
EXTENDS Integers, Sequences, FiniteSets, FiniteSetsExt, SequencesExt

CONSTANTS
    MaxLabels,      \* labels of a name, and pointers followed for one: 127 in the code
    MaxNameLength,  \* octets of a name: 255 in the code
    MaxPointer,     \* the last offset a pointer can name: 0x3FFF in the code
    MaxPacketLen,   \* cells of a packet: 65535 octets in the code
    LowerRunes(_)   \* a text that is not ASCII in lower case, by Go's tables of runes

ASSUME WireAssumption ==
    /\ {MaxLabels, MaxNameLength, MaxPointer, MaxPacketLen} \subseteq Nat
    /\ MaxPointer < 64 * 256  \* a pointer has 14 bits

MaxLabelLength == 63
MaxString == 255
HeaderSize == 2
QuestionFixed == 1
RecordFixed == 2

Dot == 46

(* The encodings of what unicode.IsSpace calls a space.                    *)
Spaces ==
    {<<c>> : c \in {9, 10, 11, 12, 13, 32}}
    \cup {<<194, 133>>, <<194, 160>>, <<225, 154, 128>>, <<226, 129, 159>>, <<227, 128, 128>>}
    \cup {<<226, 128, c>> : c \in (128 .. 138) \cup {168, 169, 175}}

(* joinLabels: the text of a name.  A dot within a label is not escaped.   *)
Join(labels) ==
    IF labels = <<>> THEN <<Dot>> ELSE FlattenSeq([i \in DOMAIN labels |-> labels[i] \o <<Dot>>])

TextLength(labels) == Len(FlattenSeq([i \in DOMAIN labels |-> labels[i] \o <<Dot>>])) + 1

(* The i-th octet is of a space.  No encoding of a rune begins within      *)
(* another, so it does not matter from which end one reads.                *)
Blank(text, i) == \E s \in Spaces : \E j \in 1 .. Len(s) :
    LET before == i - j IN before >= 0 /\ before + Len(s) <= Len(text) /\ s = SubSeq(text, before + 1, before + Len(s))

TrimSpace(text) ==
    LET kept == {i \in DOMAIN text : ~Blank(text, i)} IN
    IF kept = {} THEN <<>>
    ELSE SubSeq(text, Min(kept), Max(kept))

(* What lies between the dots of a text that ends in one.                  *)
LabelsOf(dotted) ==
    LET dots == {i \in DOMAIN dotted : dotted[i] = Dot}
        nth(k) == CHOOSE i \in dots : Cardinality({j \in dots : j <= i}) = k
    IN  [k \in 1 .. Cardinality(dots) |-> SubSeq(dotted, IF k = 1 THEN 1 ELSE nth(k - 1) + 1, nth(k) - 1)]

Writable(labels) ==
    /\ Len(labels) <= MaxLabels
    /\ \A i \in DOMAIN labels : Len(labels[i]) \in 1 .. MaxLabelLength
    /\ TextLength(labels) <= MaxNameLength

(* splitQName: the labels of a text, cut at its dots.                      *)
SplitQName(text) ==
    LET name == TrimSpace(text) IN
    IF name \in {<<>>, <<Dot>>} THEN <<>>
    ELSE LabelsOf(IF name[Len(name)] = Dot THEN name ELSE Append(name, Dot))

(* Letters in lower case, and nothing else changed.                        *)
FoldCase(text) == [i \in DOMAIN text |-> IF text[i] \in 65 .. 90 THEN text[i] + 32 ELSE text[i]]

IsAscii(text) == \A i \in DOMAIN text : text[i] < 128

(* strings.ToLower: octet by octet in ASCII, else rune by rune, where      *)
(* lengths may change and different runes, and all octets that encode      *)
(* none, may become the same.                                              *)
ToLower(text) == IF IsAscii(text) THEN FoldCase(text) ELSE LowerRunes(text)
-----------------------------------------------------------------------------
(* packetWriter with the map of Encode: the cells written, where suffixes  *)
(* of names were written, and whether no step has failed.                  *)
NewWriter == [buf |-> <<>>, compression |-> {}, ok |-> TRUE]

Put(w, cells) == [w EXCEPT !.buf = @ \o cells]

Pointer(offset) == <<192 + offset \div 256, offset % 256>>

(* Labels are written in the case they are compared in.                    *)
LabelCells_Folded(labels, n) == FlattenSeq([j \in 1 .. n |-> <<Len(labels[j])>> \o ToLower(labels[j])])

(* The cells of the first n labels, their lengths before them.             *)
LabelCells(labels, n) == FlattenSeq([j \in 1 .. n |-> <<Len(labels[j])>> \o labels[j]])

(* What a suffix is looked up by.                                          *)
SuffixKey(labels, i) == ToLower(Join(SubSeq(labels, i, Len(labels))))

(* The offset of a label's octets is recorded instead of its length's.     *)
SuffixOffset_Slip(w, labels, i) == Len(w.buf) + Len(LabelCells(labels, i - 1)) + 1

(* Where the i-th label goes when all before it are written out.           *)
SuffixOffset(w, labels, i) == Len(w.buf) + Len(LabelCells(labels, i - 1))

(* The first n labels, remembered each with its suffix, also beyond the    *)
(* reach of pointers, and then the root or a pointer.                      *)
WriteLabels(w, labels, n, ending) ==
    [w EXCEPT !.buf = @ \o LabelCells(labels, n) \o ending,
              !.compression = @ \cup {[key |-> SuffixKey(labels, i), offset |-> SuffixOffset(w, labels, i)] : i \in 1 .. n}]

Failed(w) == [w EXCEPT !.ok = FALSE]

(* The labels from the i-th on were written before; a pointer may not      *)
(* reach that far.                                                         *)
PointBack(w, labels, i) ==
    LET target == (CHOOSE s \in w.compression : s.key = SuffixKey(labels, i)).offset IN
    IF target > MaxPointer THEN Failed(w) ELSE WriteLabels(w, labels, i - 1, Pointer(target))

(* writeName: labels up to the first suffix that was written before, in    *)
(* whatever case, then a pointer to it, or the root.                       *)
WriteName(w, text) ==
    LET labels == SplitQName(text)
        known == {i \in DOMAIN labels : \E s \in w.compression : s.key = SuffixKey(labels, i)}
    IN  IF ~Writable(labels) THEN Failed(w)
        ELSE IF known = {} THEN WriteLabels(w, labels, Len(labels), <<0>>)
        ELSE PointBack(w, labels, Min(known))
-----------------------------------------------------------------------------
(* The data of a record is a list of fields.  parseRData reads them one    *)
(* after the other from a position it moves on, encodeRData writes them.   *)
(*   need n     n more cells are there, or the data is not understood      *)
(*   exactly n  n cells are there in all, or the data is not understood    *)
(*   numbers n  n cells                                                    *)
(*   name       a name                                                     *)
(*   counted    a length and as many cells                                 *)
(*   strings    strings, counted each, to the end                          *)
(*   rest       the cells to the end                                       *)
Need(n) == [op |-> "need", n |-> n]
Exactly(n) == [op |-> "exactly", n |-> n]
Numbers(n) == [op |-> "numbers", n |-> n]
Name == [op |-> "name", n |-> 0]
Counted == [op |-> "counted", n |-> 0]
Strings == [op |-> "strings", n |-> 0]
Rest == [op |-> "rest", n |-> 0]

TypeA == 1
TypeNS == 2
TypeCNAME == 5
TypeSOA == 6
TypePTR == 12
TypeMX == 15
TypeTXT == 16
TypeAAAA == 28
TypeSRV == 33
TypeOPT == 41
TypeDS == 43
TypeRRSIG == 46
TypeNSEC == 47
TypeDNSKEY == 48
TypeNSEC3 == 50
TypeCAA == 257

(* Nobody looks whether the name ends within the data before the rest is   *)
(* taken, as for NS.                                                       *)
NSECFields_NoEndCheck == <<Name, Rest>>

NSECFields == <<Name, Need(0), Rest>>

(* parseRData and encodeRData, by type.  Only CNAME, RRSIG and NSEC look   *)
(* whether a name ends within the data.  The options of OPT and the data   *)
(* of unknown types are kept as they are.                                  *)
RDataFields(type) ==
    CASE type \in {TypeA, TypeAAAA} -> <<Exactly(1), Rest>>
      [] type = TypeCNAME -> <<Name, Need(0)>>
      [] type \in {TypeNS, TypePTR} -> <<Name>>
      [] type = TypeMX -> <<Need(2), Numbers(1), Name>>
      [] type = TypeSOA -> <<Name, Name, Need(5), Numbers(5)>>
      [] type = TypeTXT -> <<Strings>>
      [] type = TypeSRV -> <<Need(4), Numbers(3), Name>>
      [] type = TypeCAA -> <<Need(2), Numbers(1), Counted, Rest>>
      [] type = TypeRRSIG -> <<Need(7), Numbers(7), Name, Need(0), Rest>>
      [] type \in {TypeDNSKEY, TypeDS} -> <<Need(3), Numbers(3), Rest>>
      [] type = TypeNSEC -> NSECFields
      [] type = TypeNSEC3 -> <<Need(4), Numbers(3), Counted, Need(1), Counted, Rest>>
      [] OTHER -> <<Rest>>

(* What was read for a field: the field it came from and its cells or      *)
(* text.  A record keeps its data uninterpreted beside that, and has only  *)
(* that (parsed is FALSE) when it was not understood.                      *)
WriteItem(w, item) ==
    CASE item.op = "name" -> WriteName(w, item.value)
      [] item.op = "counted" -> [Put(w, <<Len(item.value)>> \o item.value) EXCEPT !.ok = Len(item.value) <= MaxString]
      [] OTHER -> Put(w, item.value)
=============================================================================
