----------------------------- MODULE MCRoundTrip -----------------------------
(* Packets for RoundTrip: arbitrary ones, and messages of the usual form.  *)
EXTENDS RoundTrip

(* The sign for kelvin, U+212A, which is k in lower case.                  *)
Kelvin == <<226, 132, 170>>

(* unicode.ToLower of the runes below: the sign, and octets that encode no *)
(* rune, each of which becomes the replacement character.                  *)
SomeLowerRunes(text) ==
    LET sign(i) == i >= 1 /\ i + 2 <= Len(text) /\ SubSeq(text, i, i + 2) = Kelvin IN
    FlattenSeq([i \in DOMAIN text |->
        IF sign(i) THEN <<107>>
        ELSE IF sign(i - 1) \/ sign(i - 2) THEN <<>>
        ELSE IF text[i] > 127 THEN <<239, 191, 189>>
        ELSE FoldCase(<<text[i]>>)])

(* Lengths, a dot, a letter, an octet beyond ASCII, the prefix of a        *)
(* pointer.                                                                *)
Octets == {0, 1, 2, 46, 97, 128, 192}

(* One question and no record, followed by anything: pointers forwards,    *)
(* backwards, to themselves and into the header, labels cut off.           *)
AnyQuestion == UNION {{<<1, 0>> \o tail : tail \in [1 .. n -> Octets]} : n \in 0 .. 5}

AllTypes ==
    {TypeA, TypeNS, TypeCNAME, TypeSOA, TypePTR, TypeMX, TypeTXT, TypeSRV, TypeOPT,
     TypeDS, TypeRRSIG, TypeNSEC, TypeNSEC3, TypeCAA}

(* One record of any type whose data is anything, with a right or a wrong  *)
(* length, followed by a cell that is not its own.                         *)
AnyRecord ==
    UNION {{<<0, 1, 0, type, length>> \o data : data \in [1 .. n -> {0, 1, 97, 192}]} :
        n \in {0, 2, 3}, type \in AllTypes, length \in 0 .. 4}
    \cup {<<0, 1, 0, type, n>> \o [i \in 1 .. n |-> IF i = k THEN c ELSE d] :
            type \in {TypeSOA, TypeRRSIG, TypeNSEC3}, n \in 6 .. 9, k \in 1 .. 9, c \in {0, 1, 3, 192}, d \in {0, 1}}

(* The root, names in either case, under each other and apart, beyond      *)
(* ASCII and with a blank before.                                          *)
Names ==
    {<<Dot>>, <<97, Dot>>, <<65, Dot>>, <<98, Dot, 97>>, <<66, Dot, 65, Dot>>,
     <<128, Dot>>, Kelvin \o <<Dot>>, <<194, 160, 97, Dot>>}

Rec(name, type, data) == [name |-> name, type |-> type, raw |-> <<>>, parsed |-> TRUE, data |-> data]
NameItem(name) == [op |-> "name", value |-> name]

(* A question, a record that names another one and a second one of the     *)
(* same form: every way their names can be compressed against each other.  *)
SomeMessages ==
    {[questions |-> <<[name |-> q, type |-> TypeA]>>,
             records |-> <<Rec(a, TypeMX, <<[op |-> "numbers", value |-> <<7>>], NameItem(b)>>),
                           Rec(b, TypeSOA, <<NameItem(c), NameItem(a), [op |-> "numbers", value |-> <<1, 2, 3, 4, 5>>]>>)>>] :
        q \in Names, a \in Names, b \in Names, c \in Names}

SomePackets == AnyQuestion \cup AnyRecord
=============================================================================
