------------------------------- MODULE Eeprom -------------------------------
(***************************************************************************)
(* The EEPROM images of the slaves (eeprom.py, m3rt_eeprom.py): a          *)
(* dictionary is written to a file one category after the other, as its    *)
(* specification says, and a file is read back the same way. Each item of  *)
(* a category is written, and read, in a step of its own.                  *)
(*                                                                         *)
(* A file is its sequence of bytes, in their real width. Of the fields     *)
(* before the categories only the serial number has a value of its own.    *)
(***************************************************************************)
EXTENDS Integers, Sequences

CONSTANTS
  Dictionaries,   \* the dictionaries a program may have: [serial, cats]
  Files,          \* complete files of other tools
  Names,          \* what m3rt_eeprom adds to the second string
  Serials,        \* and the serial numbers it is given
  Generations     \* bound: how often a dictionary read is written again

VARIABLES
  dict,       \* the dictionary, with the list of its categories
  file,       \* the file
  task,       \* what the program does, or how it ended
  seg,        \* where it is in the categories, writing or reading
  pos,        \* bytes read
  got,        \* the dictionary read so far
  complete,   \* history: the file was written to its end
  generation

vars == <<dict, file, task, seg, pos, got, complete, generation>>

Byte == {b \in Nat : b < 256}
ByteSeq == Seq(Byte)
Word16 == {w \in Nat : w < 65536}
Bit == 0..1
Type == {t \in Nat : t < 32768}   \* of a category: 15 bits

(***************************************************************************)
(* The categories. Their data is a list of items: strings, one block of    *)
(* fields, dictionaries of eight bytes or, where the type is unknown,      *)
(* bytes. Pads are items of a list of dictionaries that are none.          *)
(***************************************************************************)
id_to_category_spec(type) ==
  CASE type = 10 -> "Strings" [] type = 30 -> "GeneralInfo" [] type = 40 -> "FMMU"
    [] type = 41 -> "SyncM" [] type \in {50, 51} -> "TAndRXPDO" [] OTHER -> "unknown"
Has_key(type) == id_to_category_spec(type) # "unknown"
Kind(c) == id_to_category_spec(c.type)

Item(kind) ==
  CASE kind = "Strings"     -> ByteSeq
    [] kind = "GeneralInfo" -> [fields : [1..13 -> Byte], ports : [1..4 -> 0..3], PAD_Byte : ByteSeq]
    [] kind = "FMMU"        -> [1..2 -> Byte]
    [] kind = "SyncM"       -> [pdo : {FALSE}, bytes : [1..8 -> Byte]]
    [] kind = "TAndRXPDO"   -> [pdo : BOOLEAN, bytes : [1..8 -> Byte]]
    [] OTHER                -> Byte
CategoryOf(kind) ==
  [type : {t \in Type : id_to_category_spec(t) = kind}, vendor : Bit,
   items : Seq(Item(kind)), pads : Nat]
Category ==
  CategoryOf("Strings") \cup CategoryOf("GeneralInfo") \cup CategoryOf("FMMU")
    \cup CategoryOf("SyncM") \cup CategoryOf("TAndRXPDO") \cup CategoryOf("unknown")
Dictionary == [serial : Int, cats : Seq(Category)]
nEntry(d) == d.bytes[3]

ASSUME EepromAssumption ==
  /\ Dictionaries \subseteq Dictionary /\ Files \subseteq ByteSeq
  /\ Names \subseteq ByteSeq /\ Serials \subseteq Int /\ Generations \in Nat

(***************************************************************************)
(* EEPROM_SPEC: the fields before the categories, [bytes, word_address].   *)
(***************************************************************************)
Words(first, last) == [i \in 1..(last - first + 1) |-> [bytes |-> 2, word_address |-> first + i - 1]]
ByteArray(bytes, word) == <<[bytes |-> bytes, word_address |-> word]>>
DoubleWords(first, n) == [i \in 1..n |-> [bytes |-> 4, word_address |-> first + 2 * (i - 1)]]

EEPROM_SPEC ==
  Words(0, 4) \o ByteArray(4, 5) \o Words(7, 7) \o DoubleWords(8, 4)
    \o Words(16, 28) \o ByteArray(66, 29) \o Words(62, 63)

byte_count[n \in Nat] == IF n = 0 THEN 0 ELSE byte_count[n - 1] + EEPROM_SPEC[n].bytes
\* An address of 0 is not looked at. The fields are where they say they are.
validate_address_position(i) ==
  EEPROM_SPEC[i].word_address # 0 => 2 * EEPROM_SPEC[i].word_address = byte_count[i - 1]

SerialNumber == 28   \* the byte address of 'Serial Number'
Header == 128        \* and of the categories
ASSUME FieldsValidate ==
  /\ \A i \in 1..Len(EEPROM_SPEC) : validate_address_position(i)
  /\ byte_count[Len(EEPROM_SPEC)] = Header

(***************************************************************************)
(* struct.pack and unpack. A value out of range raises.                    *)
(***************************************************************************)
\* Mutant: the low byte keeps the rest of the word.
WordBytesLow(w) == <<w, w \div 256>>
WordBytes(w) == <<w % 256, w \div 256>>
Has(f, p, n) == p + n <= Len(f)
\* A byte of f at p, 0 past the end, where the reader finds out when it gets there.
ByteAt(f, p) == IF Has(f, p, 1) THEN f[p + 1] ELSE 0
Word(f, p) == ByteAt(f, p) + 256 * ByteAt(f, p + 1)
DoubleWordAt(f, p) == Word(f, p) + 65536 * Word(f, p + 2)
Bytes(f, p, n) == [i \in 1..n |-> ByteAt(f, p + i - 1)]
DoubleWordFits(v) == v \div 16777216 \in Byte
DoubleWord(v) == <<v % 256, (v \div 256) % 256, (v \div 65536) % 256, v \div 16777216>>
Zeros(n) == [i \in 1..n |-> 0]

val_to_n_bit_chunks(val) == [i \in 1..4 |-> (val \div <<1, 4, 16, 64>>[i]) % 4]
\* The chunks have two bits, so that "or" adds them.
n_bit_chunks_to_val(chunks) == chunks[1] + 4 * chunks[2] + 16 * chunks[3] + 64 * chunks[4]

(***************************************************************************)
(* Where the program is in the categories: how many it has begun and, when *)
(* one of them is open, its type, how many items it asks for (of PDOs:     *)
(* until how many are done it goes on with another one), how many are      *)
(* done, how many entries the last PDO still has, and the byte count that  *)
(* decides on the padding of strings.                                      *)
(***************************************************************************)
Segment == [cat : Nat, type : Type, open : BOOLEAN, n : Nat, idx : Nat, due : Byte, byte_count : Nat]
Opened(cat, type, n) ==
  [cat |-> cat, type |-> type, open |-> TRUE, n |-> n, idx |-> 0, due |-> 0, byte_count |-> 1]
Closed(cat) ==
  [cat |-> cat, type |-> 0, open |-> FALSE, n |-> 0, idx |-> 0, due |-> 0, byte_count |-> 1]

More(s) == s.due > 0 \/ s.idx < s.n
StringBytes(s) == <<Len(s)>> \o s
Counted(s, item) == IF Kind(s) = "Strings" THEN Len(StringBytes(item)) ELSE 0
EntriesDue(s, item) ==
  IF Kind(s) # "TAndRXPDO" THEN 0 ELSE IF s.due > 0 THEN s.due - 1 ELSE nEntry(item)
Advance(s, item) ==
  [s EXCEPT !.idx = @ + 1, !.byte_count = @ + Counted(s, item), !.due = EntriesDue(s, item)]

\* The bytes of an item. Lengths that are no byte, and dictionaries of the
\* other sort than the one that is due, raise before a byte is written.
ItemRaises(s, item) ==
  \/ Kind(s) = "Strings" /\ Len(item) > 255
  \/ Kind(s) = "TAndRXPDO" /\ item.pdo # (s.due = 0)
ItemBytes(kind, item) ==
  CASE kind = "Strings"     -> StringBytes(item)
    [] kind = "GeneralInfo" -> SubSeq(item.fields, 1, 4) \o <<n_bit_chunks_to_val(item.ports)>>
                                 \o SubSeq(item.fields, 5, 13) \o item.PAD_Byte
    [] kind = "FMMU"        -> item
    [] kind \in {"SyncM", "TAndRXPDO"} -> item.bytes
Odd(s) == IF Kind(s) = "Strings" THEN s.byte_count % 2 ELSE 0
\* Mutant: an odd number of bytes is left odd.
PaddingNever(s) == <<>>
Padding(s) == IF Odd(s) = 1 THEN <<255>> ELSE <<>>

\* The size in words, when the loop over the items is done. The repeated
\* category takes its last item for padding.
word_size(c, s) ==
  CASE Kind(c) = "Strings"     -> (s.byte_count + 1) \div 2
    [] Kind(c) = "GeneralInfo" -> 16
    [] Kind(c) = "FMMU"        -> 1
    [] Kind(c) = "SyncM"       -> 4 * (Len(c.items) + c.pads - 1)
    [] Kind(c) = "TAndRXPDO"   -> 4 * s.n

\* What is read of f at p: the header of a category, and of an item.
TypeAt(f, p) == Word(f, p) % 32768
CountAt(f, p) ==
  LET kind == id_to_category_spec(TypeAt(f, p)) IN
  CASE kind = "Strings"               -> ByteAt(f, p + 4)
    [] kind \in {"GeneralInfo", "FMMU"} -> 1
    [] kind = "SyncM"                 -> Word(f, p + 2) \div 4
    [] kind = "TAndRXPDO"             -> (Word(f, p + 2) + 3) \div 4
    [] OTHER                          -> 2 * Word(f, p + 2)
HeaderEnd(f, p) == p + (IF id_to_category_spec(TypeAt(f, p)) = "Strings" THEN 5 ELSE 4)
ItemAt(f, s, p) ==
  CASE Kind(s) = "Strings"     -> Bytes(f, p + 1, ByteAt(f, p))
    [] Kind(s) = "GeneralInfo" -> [fields |-> [i \in 1..13 |-> ByteAt(f, IF i <= 4 THEN p + i - 1 ELSE p + i)],
                                   ports |-> val_to_n_bit_chunks(ByteAt(f, p + 4)), PAD_Byte |-> Bytes(f, p + 14, 18)]
    [] Kind(s) = "FMMU"        -> Bytes(f, p, 2)
    [] Kind(s) \in {"SyncM", "TAndRXPDO"} ->
         [pdo |-> Kind(s) = "TAndRXPDO" /\ s.due = 0, bytes |-> Bytes(f, p, 8)]
    [] OTHER                   -> ByteAt(f, p)
ItemEnd(f, s, p) ==
  p + (CASE Kind(s) = "Strings" -> 1 + ByteAt(f, p) [] Kind(s) = "GeneralInfo" -> 32 [] Kind(s) = "FMMU" -> 2
         [] Kind(s) \in {"SyncM", "TAndRXPDO"} -> 8 [] OTHER -> 1)

(***************************************************************************)
(* Writing.                                                                *)
(***************************************************************************)
Init ==
  /\ dict \in Dictionaries
  /\ \/ file = <<>> /\ task = "idle" /\ complete = FALSE
     \/ file \in Files /\ task = "written" /\ complete = TRUE
  /\ seg = Closed(0) /\ pos = 0 /\ generation = 0
  /\ got = [serial |-> 0, cats |-> <<>>]

\* m3rt_eeprom gives the slave its number, and its name in the second string.
m3rt_eeprom(name, serial) ==
  /\ task = "idle" /\ generation = 0 /\ dict.serial = 0
  /\ dict.cats # <<>> /\ dict.cats[1].type = 10 /\ Len(dict.cats[1].items) >= 2
  /\ dict' = [serial |-> serial, cats |-> [dict.cats EXCEPT ![1].items[2] = @ \o name]]
  /\ UNCHANGED <<file, task, seg, pos, got, complete, generation>>

\* The file is opened, which empties it, and the fields are written. A serial
\* number out of range raises in their middle.
dict_to_eeprom ==
  /\ task = "idle"
  /\ IF DoubleWordFits(dict.serial)
       THEN /\ file' = Zeros(SerialNumber) \o DoubleWord(dict.serial) \o Zeros(Header - SerialNumber - 4)
            /\ task' = "write"
       ELSE file' = Zeros(SerialNumber) /\ task' = "raised"
  /\ seg' = Closed(0) /\ complete' = FALSE
  /\ UNCHANGED <<dict, pos, got, generation>>

\* The vendor's bit is shifted by 2^15 places, and no word. A type that is not
\* known raises after it has been written.
write_category ==
  /\ task = "write" /\ ~seg.open /\ seg.cat < Len(dict.cats)
  /\ LET c == dict.cats[seg.cat + 1] IN
       IF c.vendor = 1 THEN task' = "raised" /\ UNCHANGED file
       ELSE file' = file \o WordBytes(c.type) /\ task' = IF Has_key(c.type) THEN "size" ELSE "raised"
  /\ UNCHANGED <<dict, seg, pos, got, complete, generation>>

\* The loops over the strings and over the PDOs.
Sizing(c) == Kind(c) \in {"Strings", "TAndRXPDO"} /\ seg.idx < Len(c.items)
compute_word_size ==
  /\ task = "size"
  /\ LET c == dict.cats[seg.cat + 1]
         item == c.items[seg.idx + 1]
     IN /\ Sizing(c)
        /\ IF Kind(c) = "Strings"
             THEN seg' = [seg EXCEPT !.idx = @ + 1, !.byte_count = @ + 1 + Len(item)]
             ELSE seg' = [seg EXCEPT !.idx = @ + 1, !.n = @ + (IF item.pdo THEN 1 + nEntry(item) ELSE 0)]
  /\ UNCHANGED <<dict, file, task, pos, got, complete, generation>>

\* The size, and the number of strings. One that is no word, or no byte, raises.
write_size ==
  /\ task = "size"
  /\ LET c == dict.cats[seg.cat + 1]
         size == word_size(c, seg)
         count == IF Kind(c) = "Strings" THEN <<Len(c.items)>> ELSE <<>>
     IN /\ ~Sizing(c)
        /\ IF size \notin Word16
             THEN task' = "raised" /\ UNCHANGED <<file, seg>>
           ELSE IF Kind(c) = "Strings" /\ Len(c.items) > 255
             THEN task' = "raised" /\ file' = file \o WordBytes(size) /\ UNCHANGED seg
           ELSE /\ task' = "write" /\ file' = file \o WordBytes(size) \o count
                /\ seg' = Opened(seg.cat + 1, c.type, IF Kind(c) = "TAndRXPDO" THEN seg.n ELSE Len(c.items))
  /\ UNCHANGED <<dict, pos, got, complete, generation>>

\* One item. PDOs may ask for more of them than there are.
write_item ==
  /\ task = "write" /\ seg.open /\ More(seg)
  /\ LET items == dict.cats[seg.cat].items
         item == items[seg.idx + 1]
     IN IF seg.idx >= Len(items) \/ ItemRaises(seg, item)
          THEN task' = "raised" /\ UNCHANGED <<file, seg>>
          ELSE file' = file \o ItemBytes(Kind(seg), item) /\ seg' = Advance(seg, item) /\ UNCHANGED task
  /\ UNCHANGED <<dict, pos, got, complete, generation>>

write_padding ==
  /\ task = "write" /\ seg.open /\ ~More(seg)
  /\ file' = file \o Padding(seg)
  /\ seg' = Closed(seg.cat)
  /\ UNCHANGED <<dict, task, pos, got, complete, generation>>

write_footer ==
  /\ task = "write" /\ ~seg.open /\ seg.cat = Len(dict.cats)
  /\ file' = file \o WordBytes(65535)
  /\ task' = "written" /\ complete' = TRUE
  /\ UNCHANGED <<dict, seg, pos, got, generation>>

(***************************************************************************)
(* Reading.                                                                *)
(***************************************************************************)
Refused == task' = "refused" /\ UNCHANGED <<seg, pos, got>>

eeprom_to_dict ==
  /\ task \in {"written", "raised"}
  /\ \/ ~Has(file, 0, Header) /\ Refused
     \/ /\ Has(file, 0, Header) /\ task' = "read" /\ seg' = Closed(0) /\ pos' = Header
        /\ got' = [serial |-> DoubleWordAt(file, SerialNumber), cats |-> <<>>]
  /\ UNCHANGED <<dict, file, complete, generation>>

\* Mutant: where the file ends the categories end.
read_categoryToEnd ==
  /\ task = "read" /\ ~seg.open
  /\ task' = IF Has(file, pos, 2) /\ Word(file, pos) # 65535 THEN "refused" ELSE "done"
  /\ UNCHANGED <<dict, file, seg, pos, got, complete, generation>>

\* What is left of the vendor's bit after a shift of 2^15 places is 0.
read_category ==
  /\ task = "read" /\ ~seg.open
  /\ \/ ~Has(file, pos, 2) /\ Refused
     \/ Has(file, pos, 2) /\ Word(file, pos) = 65535 /\ task' = "done" /\ UNCHANGED <<seg, pos, got>>
     \/ Has(file, pos, 2) /\ Word(file, pos) # 65535 /\ HeaderEnd(file, pos) > Len(file) /\ Refused
     \/ /\ Word(file, pos) # 65535 /\ HeaderEnd(file, pos) <= Len(file)
        /\ seg' = Opened(seg.cat + 1, TypeAt(file, pos), CountAt(file, pos))
        /\ pos' = HeaderEnd(file, pos)
        /\ got' = [got EXCEPT !.cats = Append(@, [type |-> TypeAt(file, pos), vendor |-> 0, items |-> <<>>, pads |-> 0])]
        /\ UNCHANGED task
  /\ UNCHANGED <<dict, file, complete, generation>>

read_item ==
  /\ task = "read" /\ seg.open /\ More(seg)
  /\ \/ ItemEnd(file, seg, pos) > Len(file) /\ Refused
     \/ /\ ItemEnd(file, seg, pos) <= Len(file)
        /\ got' = [got EXCEPT !.cats[seg.cat].items = Append(@, ItemAt(file, seg, pos))]
        /\ seg' = Advance(seg, ItemAt(file, seg, pos)) /\ pos' = ItemEnd(file, seg, pos)
        /\ UNCHANGED task
  /\ UNCHANGED <<dict, file, complete, generation>>

read_padding ==
  /\ task = "read" /\ seg.open /\ ~More(seg)
  /\ \/ ~Has(file, pos, Odd(seg)) /\ Refused
     \/ /\ Has(file, pos, Odd(seg)) /\ seg' = Closed(seg.cat) /\ pos' = pos + Odd(seg)
        /\ UNCHANGED <<task, got>>
  /\ UNCHANGED <<dict, file, complete, generation>>

\* A program goes on with the dictionary it has read.
Again ==
  /\ task = "done" /\ generation < Generations
  /\ dict' = got /\ task' = "idle" /\ pos' = 0 /\ generation' = generation + 1
  /\ UNCHANGED <<file, seg, got, complete>>

Next ==
  \/ \E n \in Names, s \in Serials : m3rt_eeprom(n, s)
  \/ dict_to_eeprom \/ write_category \/ compute_word_size \/ write_size
  \/ write_item \/ write_padding \/ write_footer
  \/ eeprom_to_dict \/ read_category \/ read_item \/ read_padding \/ Again

Spec == Init /\ [][Next]_vars

(***************************************************************************)
(* Properties.                                                             *)
(***************************************************************************)
\* What the program has is a dictionary, what it writes are bytes, and it never
\* reads past the end of the file.
TypeOK ==
  /\ dict \in Dictionary /\ got \in Dictionary /\ file \in ByteSeq
  /\ task \in {"idle", "write", "size", "written", "raised", "read", "refused", "done"}
  /\ seg \in Segment /\ pos \in 0..Len(file) /\ complete \in BOOLEAN /\ generation \in 0..Generations

\* A category of which all that is written is read again: one whole block of
\* fields, and padding after the sync managers.
Aligned(c) ==
  /\ Kind(c) \in {"GeneralInfo", "FMMU"} => Len(c.items) = 1
  /\ Kind(c) = "GeneralInfo" => \A i \in DOMAIN c.items : Len(c.items[i].PAD_Byte) = 18
  /\ Kind(c) = "SyncM" => c.pads = 1

\* A PDO at the beginning, and behind each one its entries and then another one.
EntriesFollow(items) ==
  /\ items # <<>> => items[1].pdo
  /\ \A i \in DOMAIN items : items[i].pdo =>
       /\ i + nEntry(items[i]) <= Len(items)
       /\ \A j \in DOMAIN items : items[j].pdo => ~ j \in (i + 1)..(i + nEntry(items[i]))
       /\ i + nEntry(items[i]) < Len(items) => items[i + nEntry(items[i]) + 1].pdo

\* One the writer can take: known, and nothing in it longer than its field.
Proper(c) ==
  /\ Aligned(c) /\ c.vendor = 0 /\ Has_key(c.type)
  /\ Kind(c) = "Strings" => Len(c.items) <= 255 /\ \A i \in DOMAIN c.items : Len(c.items[i]) <= 255
  /\ Kind(c) \in {"SyncM", "TAndRXPDO"} => 4 * Len(c.items) <= 65535
  /\ Kind(c) = "TAndRXPDO" => EntriesFollow(c.items)
Unpadded(c) == [c EXCEPT !.pads = 0]

\* A dictionary of proper categories is written whole, and what is then read
\* from the file is that dictionary, category for category and byte for byte.
RoundTrip ==
  (file \notin Files /\ DoubleWordFits(dict.serial) /\ \A i \in DOMAIN dict.cats : Proper(dict.cats[i])) =>
    /\ task \notin {"raised", "refused"}
    /\ task = "done" => got = [dict EXCEPT !.cats = [i \in DOMAIN @ |-> Unpadded(@[i])]]

\* A file whose writing was broken off by an exception, at whatever byte, is
\* never read as if it were an image with fewer categories. Where a category is
\* not aligned it may be: what is read behind it may be anything.
CompleteOrRefused ==
  task = "done" /\ (\A i \in DOMAIN dict.cats : Aligned(dict.cats[i])) => complete
=============================================================================
