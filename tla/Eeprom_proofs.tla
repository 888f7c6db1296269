--------------------------- MODULE Eeprom_proofs ---------------------------
(***************************************************************************)
(* Theorems about Eeprom for any dictionaries, names and files of other    *)
(* tools: the types; that a dictionary of proper categories is read back   *)
(* as it was written, and that a file that was broken off is never read as *)
(* a whole one. The invariant is the trail of marks that a reader of the   *)
(* file goes along: what is written at one end is what is read at the      *)
(* other, item for item, so that no induction over the data is needed.     *)
(***************************************************************************)
EXTENDS Eeprom, SequenceTheorems, TLAPS

(***************************************************************************)
(* The types.                                                              *)
(***************************************************************************)
\* A category has one of five specifications, or none.
LEMMA KindCases == \A t : id_to_category_spec(t) \in
    {"Strings", "GeneralInfo", "FMMU", "SyncM", "TAndRXPDO", "unknown"}
BY DEF id_to_category_spec

\* A category is a record with a type, the vendor's bit, items and pads.
LEMMA CategoryRecord ==
  ASSUME NEW c, NEW k, NEW S
  PROVE  c \in [type : {t \in Type : id_to_category_spec(t) = k}, vendor : Bit, items : S, pads : Nat] <=>
           Kind(c) = k /\ c \in [type : Type, vendor : Bit, items : S, pads : Nat]
<1> DEFINE T == {t \in Type : id_to_category_spec(t) = k}
<1>1. \A t : t \in T <=> t \in Type /\ id_to_category_spec(t) = k
  OBVIOUS
<1> HIDE DEF T
<1>2. c \in [type : T, vendor : Bit, items : S, pads : Nat] <=>
        Kind(c) = k /\ c \in [type : Type, vendor : Bit, items : S, pads : Nat]
  BY <1>1 DEF Kind
<1> QED
  BY <1>2 DEF T

\* Its items are of the kind its type says.
LEMMA CategoryDef ==
  ASSUME NEW c
  PROVE  c \in Category <=>
           c \in [type : Type, vendor : Bit, items : Seq(Item(Kind(c))), pads : Nat]
<1> DEFINE C(k) == [type : Type, vendor : Bit, items : Seq(Item(k)), pads : Nat]
<1>1. ASSUME NEW k PROVE c \in CategoryOf(k) <=> Kind(c) = k /\ c \in C(k)
  BY CategoryRecord DEF CategoryOf
<1>2. Kind(c) \in {"Strings", "GeneralInfo", "FMMU", "SyncM", "TAndRXPDO", "unknown"}
  BY KindCases DEF Kind
<1> HIDE DEF C
<1>3. c \in Category <=> c \in C(Kind(c))
  BY <1>1, <1>2 DEF Category
<1> QED
  BY <1>3 DEF C

\* A string is its bytes.
LEMMA StringsItem == Item("Strings") = ByteSeq
BY DEF Item

\* The block of fields has thirteen bytes, four chunks of two bits and the bytes
\* at its end.
LEMMA GeneralInfoItem ==
  Item("GeneralInfo") = [fields : [1..13 -> Byte], ports : [1..4 -> 0..3], PAD_Byte : ByteSeq]
BY DEF Item

\* The units of a category FMMU are two bytes.
LEMMA FMMUItem == Item("FMMU") = [1..2 -> Byte]
BY DEF Item

\* A sync manager is eight bytes.
LEMMA SyncMItem == Item("SyncM") = [pdo : {FALSE}, bytes : [1..8 -> Byte]]
BY DEF Item

\* A PDO, and an entry of one, is eight bytes.
LEMMA PDOItem == Item("TAndRXPDO") = [pdo : BOOLEAN, bytes : [1..8 -> Byte]]
BY DEF Item

\* An item of an unknown category is a byte.
LEMMA UnknownItem == Item("unknown") = Byte
BY DEF Item

(***************************************************************************)
(* A file that grows.                                                      *)
(***************************************************************************)

\* The length and the elements of a sequence of bytes.
LEMMA LenOf == \A f \in ByteSeq : Len(f) \in Nat /\ \A i \in 1..Len(f) : f[i] \in Byte
BY DEF ByteSeq

\* One sequence of bytes behind another.
LEMMA Joined ==
  ASSUME NEW a \in ByteSeq, NEW b \in ByteSeq
  PROVE  /\ a \o b \in ByteSeq /\ Len(a \o b) = Len(a) + Len(b)
         /\ \A i \in 1..Len(a) : (a \o b)[i] = a[i]
         /\ \A i \in 1..Len(b) : (a \o b)[Len(a) + i] = b[i]
<1>1. /\ a \o b \in ByteSeq /\ Len(a \o b) = Len(a) + Len(b)
      /\ \A i \in 1..Len(a) + Len(b) : (a \o b)[i] = IF i <= Len(a) THEN a[i] ELSE b[i - Len(a)]
  BY ConcatProperties DEF ByteSeq
<1> QED
  BY <1>1, LenOf

\* What is appended in two steps may be appended in one.
LEMMA JoinedAssociative ==
  ASSUME NEW a \in ByteSeq, NEW b \in ByteSeq, NEW c \in ByteSeq
  PROVE  (a \o b) \o c = a \o (b \o c)
BY ConcatAssociative DEF ByteSeq

\* A byte of a file stays where it is while the file grows, and what is appended
\* is found behind it.
LEMMA Longer ==
  ASSUME NEW f \in ByteSeq, NEW b \in ByteSeq
  PROVE  /\ f \o b \in ByteSeq /\ Len(f \o b) = Len(f) + Len(b)
         /\ \A p \in Nat : p < Len(f) => ByteAt(f \o b, p) = ByteAt(f, p)
         /\ \A i \in 1..Len(b) : ByteAt(f \o b, Len(f) + i - 1) = b[i]
<1>1. /\ f \o b \in ByteSeq /\ Len(f \o b) = Len(f) + Len(b)
      /\ \A i \in 1..Len(f) + Len(b) : (f \o b)[i] = IF i <= Len(f) THEN f[i] ELSE b[i - Len(f)]
  BY ConcatProperties DEF ByteSeq
<1>2. Len(f) \in Nat /\ Len(b) \in Nat
  BY LenOf
<1> HIDE DEF ByteSeq
<1>3. ASSUME NEW p \in Nat, p < Len(f)
      PROVE  ByteAt(f \o b, p) = ByteAt(f, p)
  <2>1. (f \o b)[p + 1] = f[p + 1]
    BY <1>1, <1>2, <1>3
  <2> QED
    BY <1>1, <1>2, <1>3, <2>1 DEF ByteAt, Has
<1>4. ASSUME NEW i \in 1..Len(b)
      PROVE  ByteAt(f \o b, Len(f) + i - 1) = b[i]
  <2>1. (f \o b)[Len(f) + i] = b[i]
    BY <1>1, <1>2
  <2>2. Len(f) + i - 1 + 1 = Len(f) + i
    BY <1>2
  <2> QED
    BY <1>1, <1>2, <2>1, <2>2 DEF ByteAt, Has
<1> QED
  BY <1>1, <1>3, <1>4

(***************************************************************************)
(* What is read is of the type it should be.                               *)
(***************************************************************************)
\* A byte that is read is a byte, past the end of the file too.
LEMMA ReadsBytes == \A f \in ByteSeq, p \in Nat : ByteAt(f, p) \in Byte
<1> SUFFICES ASSUME NEW f \in ByteSeq, NEW p \in Nat
             PROVE  ByteAt(f, p) \in Byte
  OBVIOUS
<1>1. CASE p + 1 <= Len(f)
  BY <1>1, LenOf DEF ByteAt, Has
<1>2. CASE ~(p + 1 <= Len(f))
  BY <1>2 DEF ByteAt, Has, Byte
<1> QED
  BY <1>1, <1>2

\* Two bytes are a word, and 15 bits of it a type.
LEMMA WordOf ==
  ASSUME NEW a \in Byte, NEW b \in Byte
  PROVE  a + 256 * b \in Word16 /\ (a + 256 * b) % 32768 \in Type
<1>1. a + 256 * b \in Word16
  BY DEF Byte, Word16
<1>2. \A w \in Word16 : w % 32768 \in Type
  BY DEF Word16, Type
<1> QED
  BY <1>1, <1>2

\* A word that is read is a word, and a type a type.
LEMMA ReadsWords == \A f \in ByteSeq, p \in Nat : Word(f, p) \in Word16 /\ TypeAt(f, p) \in Type
<1> SUFFICES ASSUME NEW f \in ByteSeq, NEW p \in Nat
             PROVE  Word(f, p) \in Word16 /\ TypeAt(f, p) \in Type
  OBVIOUS
<1>1. ByteAt(f, p) \in Byte /\ ByteAt(f, p + 1) \in Byte
  BY ReadsBytes
<1> QED
  BY <1>1, WordOf DEF Word, TypeAt

\* The header of a category has at least four bytes.
LEMMA ReadsHeader ==
  ASSUME NEW f \in ByteSeq, NEW p \in Nat
  PROVE  CountAt(f, p) \in Nat /\ HeaderEnd(f, p) \in Nat /\ HeaderEnd(f, p) >= p + 4
<1>1. ByteAt(f, p + 4) \in Byte /\ Word(f, p + 2) \in Word16
  BY ReadsBytes, ReadsWords
<1>2. ByteAt(f, p + 4) \in Nat /\ Word(f, p + 2) \in Nat
  BY <1>1 DEF Byte, Word16
<1>3. id_to_category_spec(TypeAt(f, p)) \in {"Strings", "GeneralInfo", "FMMU", "SyncM", "TAndRXPDO", "unknown"}
  BY KindCases
<1>4. CountAt(f, p) \in Nat
  BY <1>2, <1>3 DEF CountAt
<1> QED
  BY <1>4 DEF HeaderEnd

\* As many bytes are read as are asked for.
LEMMA ReadsBytesOf ==
  ASSUME NEW f \in ByteSeq, NEW p \in Nat, NEW n \in Nat
  PROVE  Bytes(f, p, n) \in [1..n -> Byte] /\ Bytes(f, p, n) \in ByteSeq /\ Len(Bytes(f, p, n)) = n
<1>1. \A i \in 1..n : p + i - 1 \in Nat
  OBVIOUS
<1>2. \A i \in 1..n : ByteAt(f, p + i - 1) \in Byte
  BY <1>1, ReadsBytes
<1>3. Bytes(f, p, n) \in [1..n -> Byte]
  BY <1>2 DEF Bytes
<1> QED
  BY <1>3 DEF ByteSeq

\* A byte falls into four chunks of two bits.
LEMMA ReadsChunks ==
  ASSUME NEW v \in Byte
  PROVE  val_to_n_bit_chunks(v) \in [1..4 -> 0..3]
BY DEF val_to_n_bit_chunks, Byte

\* An item that is read is one of its kind, and takes some bytes.
LEMMA ReadsItem ==
  ASSUME NEW f \in ByteSeq, NEW s, NEW p \in Nat
  PROVE  /\ ItemAt(f, s, p) \in Item(Kind(s))
         /\ ItemEnd(f, s, p) \in Nat /\ ItemEnd(f, s, p) > p
<1>1. Kind(s) \in {"Strings", "GeneralInfo", "FMMU", "SyncM", "TAndRXPDO", "unknown"}
  BY KindCases DEF Kind
<1>2. ByteAt(f, p) \in Byte /\ ByteAt(f, p) \in Nat
  BY ReadsBytes DEF Byte
<1>3. ItemEnd(f, s, p) \in Nat /\ ItemEnd(f, s, p) > p
  BY <1>1, <1>2 DEF ItemEnd
<1>4. CASE Kind(s) = "Strings"
  <2>1. ItemAt(f, s, p) = Bytes(f, p + 1, ByteAt(f, p))
    BY <1>4 DEF ItemAt
  <2> QED
    BY <1>2, <1>3, <1>4, <2>1, ReadsBytesOf, StringsItem
<1>5. CASE Kind(s) = "GeneralInfo"
  <2> DEFINE fields == [i \in 1..13 |-> ByteAt(f, IF i <= 4 THEN p + i - 1 ELSE p + i)]
             ports == val_to_n_bit_chunks(ByteAt(f, p + 4))
             pad == Bytes(f, p + 14, 18)
  <2>1. \A i \in 1..13 : (IF i <= 4 THEN p + i - 1 ELSE p + i) \in Nat
    OBVIOUS
  <2>2. fields \in [1..13 -> Byte]
    BY <2>1, ReadsBytes
  <2>3. ports \in [1..4 -> 0..3]
    <3>1. ByteAt(f, p + 4) \in Byte
      BY ReadsBytes
    <3> QED
      BY <3>1, ReadsChunks
  <2>4. pad \in ByteSeq
    BY ReadsBytesOf
  <2>5. ItemAt(f, s, p) = [fields |-> fields, ports |-> ports, PAD_Byte |-> pad]
    BY <1>5 DEF ItemAt
  <2> HIDE DEF fields, ports, pad
  <2>6. ItemAt(f, s, p) \in [fields : [1..13 -> Byte], ports : [1..4 -> 0..3], PAD_Byte : ByteSeq]
    BY <2>2, <2>3, <2>4, <2>5
  <2> QED
    BY <1>3, <1>5, <2>6, GeneralInfoItem
<1>6. CASE Kind(s) = "FMMU"
  <2>1. ItemAt(f, s, p) = Bytes(f, p, 2)
    BY <1>6 DEF ItemAt
  <2>2. Bytes(f, p, 2) \in [1..2 -> Byte]
    BY ReadsBytesOf
  <2> QED
    BY <1>3, <1>6, <2>1, <2>2, FMMUItem
<1>7. CASE Kind(s) \in {"SyncM", "TAndRXPDO"}
  <2> DEFINE E == [1..8 -> Byte]
             b == Bytes(f, p, 8)
             d == Kind(s) = "TAndRXPDO" /\ s.due = 0
  <2>1. b \in E
    BY ReadsBytesOf
  <2>2. ItemAt(f, s, p) = [pdo |-> d, bytes |-> b]
    BY <1>7 DEF ItemAt
  <2>. d \in BOOLEAN
    OBVIOUS
  <2> HIDE DEF E, b, d
  <2>3. ASSUME Kind(s) = "SyncM" PROVE ItemAt(f, s, p) \in [pdo : {FALSE}, bytes : E]
    <3>1. [pdo |-> FALSE, bytes |-> b] \in [pdo : {FALSE}, bytes : E]
      BY <2>1
    <3>2. d = FALSE
      BY <2>3 DEF d
    <3>3. ItemAt(f, s, p) = [pdo |-> FALSE, bytes |-> b]
      BY <2>2, <3>2, Zenon
    <3> QED
      BY <3>1, <3>3, Zenon
  <2>4. Kind(s) = "TAndRXPDO" => ItemAt(f, s, p) \in [pdo : BOOLEAN, bytes : E]
    BY <2>1, <2>2
  <2> QED
    BY <1>3, <1>7, <2>3, <2>4, SyncMItem, PDOItem DEF E
<1>8. CASE Kind(s) = "unknown"
  <2>1. ItemAt(f, s, p) = ByteAt(f, p)
    BY <1>8 DEF ItemAt
  <2> QED
    BY <1>2, <1>3, <1>8, <2>1, UnknownItem
<1> QED
  BY <1>1, <1>4, <1>5, <1>6, <1>7, <1>8

(***************************************************************************)
(* What is written of an item is read back as that item.                   *)
(***************************************************************************)
\* val_to_n_bit_chunks undoes n_bit_chunks_to_val.
LEMMA Chunks ==
  ASSUME NEW ports \in [1..4 -> 0..3]
  PROVE  /\ n_bit_chunks_to_val(ports) \in Byte
         /\ val_to_n_bit_chunks(n_bit_chunks_to_val(ports)) = ports
<1>1. ports[1] \in 0..3 /\ ports[2] \in 0..3 /\ ports[3] \in 0..3 /\ ports[4] \in 0..3
  OBVIOUS
<1>2. n_bit_chunks_to_val(ports) \in Byte
  BY <1>1 DEF n_bit_chunks_to_val, Byte
<1>3. ASSUME NEW a \in 0..3, NEW b \in 0..3, NEW c \in 0..3, NEW d \in 0..3
      PROVE  LET v == a + 4 * b + 16 * c + 64 * d
             IN /\ (v \div 1) % 4 = a /\ (v \div 4) % 4 = b
                /\ (v \div 16) % 4 = c /\ (v \div 64) % 4 = d
  OBVIOUS
<1> DEFINE v == n_bit_chunks_to_val(ports)
<1>4. /\ (v \div 1) % 4 = ports[1] /\ (v \div 4) % 4 = ports[2]
      /\ (v \div 16) % 4 = ports[3] /\ (v \div 64) % 4 = ports[4]
  BY <1>1, <1>3 DEF n_bit_chunks_to_val
<1> HIDE DEF v
<1>5. \A i \in 1..4 : (v \div <<1, 4, 16, 64>>[i]) % 4 = ports[i]
  BY <1>4
<1>6. val_to_n_bit_chunks(v) = ports
  BY <1>5 DEF val_to_n_bit_chunks
<1> QED
  BY <1>2, <1>6 DEF v

\* Bytes that were appended are read back where they are.
LEMMA ReadsBackBytes ==
  ASSUME NEW f \in ByteSeq, NEW b \in ByteSeq, NEW k \in Nat, NEW item \in ByteSeq,
         k + Len(item) <= Len(b), \A i \in 1..Len(item) : b[k + i] = item[i],
         NEW g, g = f \o b
  PROVE  Bytes(g, Len(f) + k, Len(item)) = item
<1>1. Len(f) \in Nat /\ Len(item) \in Nat /\ Len(b) \in Nat
  BY LenOf
<1>2. ASSUME NEW i \in 1..Len(item)
      PROVE  ByteAt(g, Len(f) + k + i - 1) = item[i]
  <2>1. k + i \in 1..Len(b) /\ Len(f) + k + i - 1 = Len(f) + (k + i) - 1
    BY <1>1
  <2>2. b[k + i] = item[i]
    OBVIOUS
  <2> QED
    BY <2>1, <2>2, Longer
<1>3. item = [i \in 1..Len(item) |-> item[i]]
  BY DEF ByteSeq
<1> QED
  BY <1>2, <1>3 DEF Bytes

\* Two bytes, or eight, are a sequence of bytes.
LEMMA SmallSeq ==
  /\ \A b \in [1..2 -> Byte] : b \in ByteSeq /\ Len(b) = 2
  /\ \A b \in [1..8 -> Byte] : b \in ByteSeq /\ Len(b) = 8
<1>1. ASSUME NEW n \in Nat, NEW b \in [1..n -> Byte]
      PROVE  b \in ByteSeq /\ Len(b) = n
  BY DEF ByteSeq
<1>2. ASSUME NEW b \in [1..2 -> Byte] PROVE b \in ByteSeq /\ Len(b) = 2
  BY <1>1
<1>3. ASSUME NEW b \in [1..8 -> Byte] PROVE b \in ByteSeq /\ Len(b) = 8
  BY <1>1
<1> QED
  BY <1>2, <1>3

\* A string is written behind its length.
LEMMA WritesString ==
  ASSUME NEW item \in ByteSeq, Len(item) <= 255
  PROVE  /\ StringBytes(item) \in ByteSeq /\ Len(StringBytes(item)) = 1 + Len(item)
         /\ StringBytes(item)[1] = Len(item)
         /\ \A i \in 1..Len(item) : StringBytes(item)[1 + i] = item[i]
<1>1. Len(item) \in Byte
  BY LenOf DEF Byte
<1>2. <<Len(item)>> \in Seq(Byte) /\ item \in Seq(Byte)
  BY <1>1 DEF ByteSeq
<1>3. /\ StringBytes(item) \in Seq(Byte) /\ Len(StringBytes(item)) = 1 + Len(item)
      /\ \A i \in 1..(1 + Len(item)) :
           StringBytes(item)[i] = IF i <= 1 THEN Len(item) ELSE item[i - 1]
  BY <1>2, ConcatProperties DEF StringBytes
<1> QED
  BY <1>3, LenOf DEF ByteSeq

\* The fields are written around the byte that has the ports.
LEMMA WritesFields ==
  ASSUME NEW item \in [fields : [1..13 -> Byte], ports : [1..4 -> 0..3], PAD_Byte : ByteSeq],
         NEW b, b = ItemBytes("GeneralInfo", item)
  PROVE  /\ b \in ByteSeq /\ Len(b) = 14 + Len(item.PAD_Byte)
         /\ \A i \in 1..13 : b[IF i <= 4 THEN i ELSE i + 1] = item.fields[i]
         /\ b[5] = n_bit_chunks_to_val(item.ports)
         /\ \A i \in 1..Len(item.PAD_Byte) : b[14 + i] = item.PAD_Byte[i]
<1> DEFINE fs == item.fields
           v == n_bit_chunks_to_val(item.ports)
           pad == item.PAD_Byte
           b1 == SubSeq(fs, 1, 4)
           b2 == SubSeq(fs, 5, 13)
<1>1. fs \in [1..13 -> Byte] /\ v \in Byte /\ pad \in ByteSeq
  BY Chunks
<1>2. b = ((b1 \o <<v>>) \o b2) \o pad
  BY DEF ItemBytes
<1> HIDE DEF v, pad, fs
<1>3. b1 \in ByteSeq /\ Len(b1) = 4 /\ \A i \in 1..4 : b1[i] = fs[i]
  <2>1. \A i \in 1..4 : fs[i] \in Byte
    BY <1>1
  <2> QED
    BY <2>1, SubSeqProperties DEF ByteSeq
<1>4. b2 \in ByteSeq /\ Len(b2) = 9 /\ \A i \in 1..9 : b2[i] = fs[4 + i]
  <2>1. \A i \in 5..13 : fs[i] \in Byte
    BY <1>1
  <2>2. b2 \in ByteSeq /\ Len(b2) = 9 /\ \A i \in 1..9 : b2[i] = fs[5 + i - 1]
    BY <2>1, SubSeqProperties DEF ByteSeq
  <2> QED
    BY <2>2
<1> HIDE DEF b1, b2
<1>5. <<v>> \in ByteSeq /\ Len(<<v>>) = 1 /\ <<v>>[1] = v
  BY <1>1 DEF ByteSeq
<1> DEFINE c0 == <<v>>
<1> HIDE DEF c0
<1> DEFINE c1 == b1 \o c0
           c2 == c1 \o b2
<1>6. c1 \in ByteSeq /\ Len(c1) = 5 /\ (\A i \in 1..4 : c1[i] = b1[i]) /\ c1[5] = v
  <2>1. c0 \in ByteSeq /\ Len(c0) = 1 /\ c0[1] = v
    BY <1>5 DEF c0
  <2>2. /\ c1 \in ByteSeq /\ Len(c1) = Len(b1) + Len(c0)
        /\ \A i \in 1..Len(b1) : c1[i] = b1[i]
        /\ \A i \in 1..Len(c0) : c1[Len(b1) + i] = c0[i]
    BY <1>3, <2>1, Joined
  <2> HIDE DEF c1
  <2>3. c1[4 + 1] = c0[1]
    BY <1>3, <2>1, <2>2
  <2> QED
    BY <1>3, <2>1, <2>2, <2>3
<1> HIDE DEF c1
<1>7. /\ c2 \in ByteSeq /\ Len(c2) = 14
      /\ \A i \in 1..5 : c2[i] = c1[i]
      /\ \A i \in 1..9 : c2[5 + i] = b2[i]
  <2>1. /\ c2 \in ByteSeq /\ Len(c2) = Len(c1) + Len(b2)
        /\ \A i \in 1..Len(c1) : c2[i] = c1[i]
        /\ \A i \in 1..Len(b2) : c2[Len(c1) + i] = b2[i]
    BY <1>4, <1>6, Joined
  <2> HIDE DEF c2
  <2> QED
    BY <1>4, <1>6, <2>1
<1> HIDE DEF c2
<1>8. /\ b \in ByteSeq /\ Len(b) = 14 + Len(pad)
      /\ \A i \in 1..14 : b[i] = c2[i]
      /\ \A i \in 1..Len(pad) : b[14 + i] = pad[i]
  <2> DEFINE c3 == c2 \o pad
  <2>1. b = c3
    BY <1>2 DEF c0, c1, c2
  <2>2. /\ c3 \in ByteSeq /\ Len(c3) = Len(c2) + Len(pad)
        /\ \A i \in 1..Len(c2) : c3[i] = c2[i]
        /\ \A i \in 1..Len(pad) : c3[Len(c2) + i] = pad[i]
    BY <1>1, <1>7, Joined, ZenonT(30)
  <2> HIDE DEF c3
  <2>3. /\ c3 \in ByteSeq /\ Len(c3) = 14 + Len(pad)
        /\ \A i \in 1..14 : c3[i] = c2[i]
        /\ \A i \in 1..Len(pad) : c3[14 + i] = pad[i]
    BY <1>7, <2>2
  <2> QED
    BY <2>1, <2>3
<1>10. \A i \in 1..13 : b[IF i <= 4 THEN i ELSE i + 1] = fs[i]
  <2> SUFFICES ASSUME NEW i \in 1..13 PROVE b[IF i <= 4 THEN i ELSE i + 1] = fs[i]
    OBVIOUS
  <2>1. CASE i <= 4
    <3>1. b[i] = c2[i] /\ c2[i] = c1[i] /\ c1[i] = b1[i] /\ b1[i] = fs[i]
      BY <1>3, <1>6, <1>7, <1>8, <2>1, SMTT(30)
    <3> QED
      BY <2>1, <3>1
  <2>2. CASE ~(i <= 4)
    <3>1. PICK j \in 1..9 : i = 4 + j
      <4>1. i - 4 \in 1..9 /\ i = 4 + (i - 4)
        BY <2>2
      <4> QED
        BY <4>1
    <3>2. b[5 + j] = c2[5 + j] /\ c2[5 + j] = b2[j] /\ b2[j] = fs[4 + j]
      BY <1>4, <1>7, <1>8, SMTT(30)
    <3>3. i + 1 = 5 + j
      BY <3>1
    <3> QED
      BY <2>2, <3>1, <3>2, <3>3
  <2> QED
    BY <2>1, <2>2
<1>11. b[5] = v
  BY <1>6, <1>7, <1>8
<1> QED
  BY <1>8, <1>10, <1>11 DEF fs, v, pad

\* An item that does not raise is written as bytes, and as at least one.
LEMMA WritesItem ==
  ASSUME NEW kind \in {"Strings", "GeneralInfo", "FMMU", "SyncM", "TAndRXPDO"},
         NEW item \in Item(kind), kind = "Strings" => Len(item) <= 255
  PROVE  ItemBytes(kind, item) \in ByteSeq /\ Len(ItemBytes(kind, item)) > 0
<1>1. CASE kind = "Strings"
  <2>1. item \in ByteSeq /\ ItemBytes(kind, item) = StringBytes(item)
    BY <1>1, StringsItem DEF ItemBytes
  <2> QED
    BY <1>1, <2>1, WritesString, LenOf
<1>2. CASE kind = "GeneralInfo"
  <2>1. item \in [fields : [1..13 -> Byte], ports : [1..4 -> 0..3], PAD_Byte : ByteSeq]
    BY <1>2, GeneralInfoItem
  <2>2. item.PAD_Byte \in ByteSeq
    BY <2>1
  <2> QED
    BY <1>2, <2>1, <2>2, WritesFields, LenOf
<1>3. CASE kind = "FMMU"
  <2>1. item \in [1..2 -> Byte] /\ ItemBytes(kind, item) = item
    BY <1>3, FMMUItem DEF ItemBytes
  <2>2. item \in ByteSeq /\ Len(item) = 2
    BY <2>1, SmallSeq
  <2> QED
    BY <2>1, <2>2
<1>4. CASE kind \in {"SyncM", "TAndRXPDO"}
  <2>1. item.bytes \in [1..8 -> Byte]
    <3> DEFINE E == [1..8 -> Byte]
    <3>1. item \in [pdo : {FALSE}, bytes : E] \/ item \in [pdo : BOOLEAN, bytes : E]
      BY <1>4, SyncMItem, PDOItem
    <3> HIDE DEF E
    <3>2. item.bytes \in E
      BY <3>1
    <3> QED
      BY <3>2 DEF E
  <2>2. ItemBytes(kind, item) = item.bytes
    BY <1>4 DEF ItemBytes
  <2>3. item.bytes \in ByteSeq /\ Len(item.bytes) = 8
    BY <2>1, SmallSeq
  <2> QED
    BY <2>2, <2>3
<1> QED
  BY <1>1, <1>2, <1>3, <1>4

\* An item that is written at the end of a file is read back from there, and
\* ends where the file does.
LEMMA ReadsBack ==
  ASSUME NEW f \in ByteSeq, NEW s, NEW item \in Item(Kind(s)), Kind(s) # "unknown",
         s.due \in Byte, ~ItemRaises(s, item),
         Kind(s) = "GeneralInfo" => Len(item.PAD_Byte) = 18,
         NEW g, g = f \o ItemBytes(Kind(s), item)
  PROVE  ItemAt(g, s, Len(f)) = item /\ ItemEnd(g, s, Len(f)) = Len(g)
<1> DEFINE b == ItemBytes(Kind(s), item)
           p == Len(f)
<1>1. Kind(s) \in {"Strings", "GeneralInfo", "FMMU", "SyncM", "TAndRXPDO"}
  BY KindCases DEF Kind
<1>2. Kind(s) = "Strings" => Len(item) <= 255
  <2>1. Kind(s) = "Strings" => item \in ByteSeq /\ ~(Len(item) > 255)
    BY StringsItem DEF ItemRaises
  <2> QED
    BY <2>1, LenOf
<1>3. b \in ByteSeq
  BY <1>1, <1>2, WritesItem
<1>4. p \in Nat /\ g = f \o b
  BY LenOf
<1> HIDE DEF b, p
<1>5. /\ Len(g) = p + Len(b) /\ Len(b) \in Nat
      /\ \A i \in 1..Len(b) : ByteAt(g, p + i - 1) = b[i]
  BY <1>3, <1>4, Longer, LenOf DEF p
<1>6. ASSUME NEW k \in Nat, NEW v \in ByteSeq,
             k + Len(v) <= Len(b), \A i \in 1..Len(v) : b[k + i] = v[i]
      PROVE  Bytes(g, p + k, Len(v)) = v
  <2>1. \A h : h = f \o b => Bytes(h, Len(f) + k, Len(v)) = v
    BY <1>3, <1>6, ReadsBackBytes, ZenonT(30)
  <2> QED
    BY <1>4, <2>1 DEF p
<1>7. CASE Kind(s) = "Strings"
  <2>1. item \in ByteSeq /\ b = StringBytes(item)
    BY <1>7, StringsItem DEF ItemBytes, b
  <2>2. /\ Len(b) = 1 + Len(item) /\ b[1] = Len(item)
        /\ \A i \in 1..Len(item) : b[1 + i] = item[i]
    BY <1>2, <1>7, <2>1, WritesString
  <2>3. Len(item) \in Nat
    BY <2>1, LenOf
  <2>4. ByteAt(g, p) = Len(item)
    <3>1. 1 \in 1..Len(b) /\ p + 1 - 1 = p
      BY <1>4, <2>2, <2>3
    <3> QED
      BY <1>5, <2>2, <3>1
  <2>5. Bytes(g, p + 1, Len(item)) = item
    BY <1>6, <2>1, <2>2, <2>3
  <2>7. ItemAt(g, s, p) = item
    BY <1>7, <2>4, <2>5 DEF ItemAt
  <2>8. ItemEnd(g, s, p) = p + (1 + Len(item))
    BY <1>7, <2>4 DEF ItemEnd
  <2> QED
    BY <1>4, <1>5, <2>2, <2>3, <2>7, <2>8 DEF p
<1>8. CASE Kind(s) = "GeneralInfo"
  <2>1. item \in [fields : [1..13 -> Byte], ports : [1..4 -> 0..3], PAD_Byte : ByteSeq]
    BY <1>8, GeneralInfoItem
  <2>2. b = ItemBytes("GeneralInfo", item)
    BY <1>8 DEF b
  <2> DEFINE fields == [i \in 1..13 |-> ByteAt(g, IF i <= 4 THEN p + i - 1 ELSE p + i)]
             ports == val_to_n_bit_chunks(ByteAt(g, p + 4))
             pad == Bytes(g, p + 14, 18)
  <2>3. Len(item.PAD_Byte) = 18 /\ Len(b) = 32
    <3>1. Len(b) = 14 + Len(item.PAD_Byte)
      BY <2>1, <2>2, WritesFields
    <3>2. Len(item.PAD_Byte) = 18
      BY <1>8
    <3> QED
      BY <3>1, <3>2
  <2>4. fields = item.fields
    <3>1. ASSUME NEW i \in 1..13
          PROVE  ByteAt(g, IF i <= 4 THEN p + i - 1 ELSE p + i) = item.fields[i]
      <4> DEFINE j == IF i <= 4 THEN i ELSE i + 1
      <4>1. j \in 1..Len(b) /\ p + j - 1 = IF i <= 4 THEN p + i - 1 ELSE p + i
        BY <1>4, <2>3
      <4>2. b[j] = item.fields[i]
        BY <2>1, <2>2, WritesFields, ZenonT(30)
      <4> HIDE DEF j
      <4> QED
        BY <1>5, <4>1, <4>2
    <3>2. item.fields \in [1..13 -> Byte]
      BY <2>1
    <3> QED
      BY <3>1, <3>2
  <2>5. ports = item.ports
    <3>1. b[5] = n_bit_chunks_to_val(item.ports)
      BY <2>1, <2>2, WritesFields
    <3>2. 5 \in 1..Len(b) /\ p + 5 - 1 = p + 4
      BY <1>4, <2>3
    <3>3. ByteAt(g, p + 4) = b[5]
      BY <1>5, <3>2
    <3>4. item.ports \in [1..4 -> 0..3]
      BY <2>1
    <3> QED
      BY <3>1, <3>3, <3>4, Chunks
  <2>6. pad = item.PAD_Byte
    <3>1. item.PAD_Byte \in ByteSeq
      BY <2>1
    <3>2. \A i \in 1..Len(item.PAD_Byte) : b[14 + i] = item.PAD_Byte[i]
      BY <2>1, <2>2, WritesFields
    <3>3. Bytes(g, p + 14, Len(item.PAD_Byte)) = item.PAD_Byte
      <4>1. 14 + Len(item.PAD_Byte) <= Len(b)
        BY <2>3
      <4> QED
        BY <1>6, <3>1, <3>2, <4>1
    <3> QED
      BY <2>3, <3>3
  <2>7. ItemAt(g, s, p) = [fields |-> fields, ports |-> ports, PAD_Byte |-> pad]
    BY <1>8 DEF ItemAt
  <2> HIDE DEF fields, ports, pad
  <2>8. ItemAt(g, s, p) = item
    <3> DEFINE F == [1..13 -> Byte]
               P == [1..4 -> 0..3]
    <3> HIDE DEF F, P
    <3>1. item \in [fields : F, ports : P, PAD_Byte : ByteSeq]
      BY <2>1 DEF F, P
    <3> QED
      BY <2>4, <2>5, <2>6, <2>7, <3>1
  <2>9. ItemEnd(g, s, p) = p + 32
    BY <1>8 DEF ItemEnd
  <2> QED
    BY <1>5, <2>3, <2>8, <2>9 DEF p
<1>9. CASE Kind(s) = "FMMU"
  <2>1. item \in [1..2 -> Byte] /\ b = item
    BY <1>9, FMMUItem DEF ItemBytes, b
  <2>2. Len(b) = 2
    BY <2>1, SmallSeq
  <2>3. Bytes(g, p + 0, Len(b)) = b
    BY <1>3, <1>5, <1>6
  <2>4. Bytes(g, p, 2) = item
    BY <1>4, <2>1, <2>2, <2>3
  <2>5. ItemAt(g, s, p) = item /\ ItemEnd(g, s, p) = p + 2
    BY <1>9, <2>4 DEF ItemAt, ItemEnd
  <2> QED
    BY <1>5, <2>2, <2>5 DEF p
<1>10. CASE Kind(s) \in {"SyncM", "TAndRXPDO"}
  <2> DEFINE E == [1..8 -> Byte]
             d == Kind(s) = "TAndRXPDO" /\ s.due = 0
  <2>1. b = item.bytes
    BY <1>10 DEF ItemBytes, b
  <2>2. item \in [pdo : BOOLEAN, bytes : E] /\ (Kind(s) = "SyncM" => item.pdo = FALSE)
    <3>1. CASE Kind(s) = "SyncM"
      <4>1. item \in [pdo : {FALSE}, bytes : E]
        BY <3>1, SyncMItem
      <4> HIDE DEF E
      <4> QED
        BY <4>1
    <3>2. CASE Kind(s) = "TAndRXPDO"
      BY <3>2, PDOItem
    <3> QED
      BY <1>10, <3>1, <3>2
  <2>3. item.pdo = d
    <3>1. CASE Kind(s) = "SyncM"
      BY <2>2, <3>1
    <3>2. CASE Kind(s) = "TAndRXPDO"
      <4>1. item.pdo = (s.due = 0)
        BY <3>2 DEF ItemRaises
      <4> QED
        BY <3>2, <4>1
    <3> QED
      BY <1>10, <3>1, <3>2
  <2>4. item.bytes \in E
    <3> HIDE DEF E, d
    <3> QED
      BY <2>2
  <2>5. Len(b) = 8
    BY <2>1, <2>4, SmallSeq
  <2>6. Bytes(g, p + 0, Len(b)) = b
    BY <1>3, <1>5, <1>6
  <2>7. Bytes(g, p, 8) = item.bytes
    BY <1>4, <2>1, <2>5, <2>6
  <2>8. ItemAt(g, s, p) = [pdo |-> d, bytes |-> Bytes(g, p, 8)] /\ ItemEnd(g, s, p) = p + 8
    BY <1>10 DEF ItemAt, ItemEnd
  <2> HIDE DEF d, E
  <2>9. ItemAt(g, s, p) = item
    <3>1. item = [pdo |-> item.pdo, bytes |-> item.bytes]
      BY <2>2
    <3> QED
      BY <2>3, <2>7, <2>8, <3>1, Zenon
  <2> QED
    BY <1>5, <2>5, <2>8, <2>9 DEF p
<1> QED
  BY <1>1, <1>7, <1>8, <1>9, <1>10 DEF p

(***************************************************************************)
(* Dictionaries.                                                           *)
(***************************************************************************)
\* The fields of a category.
LEMMA CategoryFields ==
  ASSUME NEW c \in Category
  PROVE  /\ c.type \in Type /\ c.vendor \in Bit /\ c.pads \in Nat
         /\ c.items \in Seq(Item(Kind(c)))
         /\ Len(c.items) \in Nat
         /\ \A i \in 1..Len(c.items) : c.items[i] \in Item(Kind(c))
<1> DEFINE S == Item(Kind(c))
           Q == Seq(S)
<1>1. c \in [type : Type, vendor : Bit, items : Q, pads : Nat]
  BY CategoryDef
<1> HIDE DEF Q, S
<1>2. c.type \in Type /\ c.vendor \in Bit /\ c.pads \in Nat /\ c.items \in Q
  BY <1>1
<1>3. Len(c.items) \in Nat /\ \A i \in 1..Len(c.items) : c.items[i] \in S
  BY <1>2 DEF Q
<1> QED
  BY <1>2, <1>3 DEF Q, S

\* A category with other items of its kind.
LEMMA CategoryWith ==
  ASSUME NEW c \in Category, NEW items \in Seq(Item(Kind(c)))
  PROVE  /\ [c EXCEPT !.items = items] \in Category
         /\ [c EXCEPT !.items = items].items = items
         /\ [c EXCEPT !.items = items].type = c.type
         /\ [c EXCEPT !.items = items].vendor = c.vendor
         /\ [c EXCEPT !.items = items].pads = c.pads
<1> DEFINE Q == Seq(Item(Kind(c)))
           d == [c EXCEPT !.items = items]
<1>1. c \in [type : Type, vendor : Bit, items : Q, pads : Nat] /\ items \in Q
  BY CategoryDef
<1> HIDE DEF Q
<1>2. /\ d \in [type : Type, vendor : Bit, items : Q, pads : Nat]
      /\ d.items = items /\ d.type = c.type /\ d.vendor = c.vendor /\ d.pads = c.pads
  BY <1>1
<1> HIDE DEF d
<1>3. Kind(d) = Kind(c)
  BY <1>2 DEF Kind
<1>4. d \in Category
  BY <1>2, <1>3, CategoryDef DEF Q
<1> QED
  BY <1>2, <1>4 DEF d

\* A category that has just been begun.
LEMMA CategoryNew ==
  ASSUME NEW type \in Type
  PROVE  [type |-> type, vendor |-> 0, items |-> <<>>, pads |-> 0] \in Category
<1> DEFINE c == [type |-> type, vendor |-> 0, items |-> <<>>, pads |-> 0]
           Q == Seq(Item(Kind(c)))
<1>1. <<>> \in Q /\ 0 \in Bit
  BY DEF Bit
<1> HIDE DEF Q
<1>2. c \in [type : Type, vendor : Bit, items : Q, pads : Nat]
  BY <1>1
<1> HIDE DEF c
<1>3. c \in Category
  BY <1>2, CategoryDef DEF Q
<1> QED
  BY <1>3 DEF c

\* The fields of a dictionary.
LEMMA DictionaryFields ==
  ASSUME NEW d \in Dictionary
  PROVE  /\ d.serial \in Int /\ d.cats \in Seq(Category) /\ Len(d.cats) \in Nat
         /\ \A i \in 1..Len(d.cats) : d.cats[i] \in Category
         /\ DOMAIN d.cats = 1..Len(d.cats)
<1>1. d.serial \in Int /\ d.cats \in Seq(Category)
  BY DEF Dictionary
<1> QED
  BY <1>1

\* A dictionary is made of a serial number and categories.
LEMMA DictionaryNew ==
  ASSUME NEW n \in Int, NEW cats \in Seq(Category)
  PROVE  /\ [serial |-> n, cats |-> cats] \in Dictionary
         /\ [serial |-> n, cats |-> cats].serial = n
         /\ [serial |-> n, cats |-> cats].cats = cats
BY DEF Dictionary

\* The dictionary with other items in one of its categories.
WithItems(d, k, items) == [d EXCEPT !.cats[k].items = items]

\* A dictionary in which one category has other items.
LEMMA DictionaryWith ==
  ASSUME NEW d \in Dictionary, NEW k \in 1..Len(d.cats), NEW items \in Seq(Item(Kind(d.cats[k]))),
         NEW e, e = WithItems(d, k, items)
  PROVE  /\ e \in Dictionary /\ e.serial = d.serial /\ Len(e.cats) = Len(d.cats)
         /\ \A i \in 1..Len(d.cats) : i # k => e.cats[i] = d.cats[i]
         /\ e.cats[k] = [d.cats[k] EXCEPT !.items = items]
<1>1. d.serial \in Int /\ d.cats \in Seq(Category) /\ Len(d.cats) \in Nat /\ d.cats[k] \in Category
  BY DictionaryFields
<1> DEFINE c == [d.cats[k] EXCEPT !.items = items]
           cats == [d.cats EXCEPT ![k] = c]
<1>2. c \in Category
  BY <1>1, CategoryWith
<1>3. e = [d EXCEPT !.cats = cats]
  BY DEF WithItems
<1> HIDE DEF c
<1>4. /\ cats \in Seq(Category) /\ Len(cats) = Len(d.cats) /\ cats[k] = c
      /\ \A i \in 1..Len(d.cats) : i # k => cats[i] = d.cats[i]
  BY <1>1, <1>2
<1> HIDE DEF cats
<1>5. e = [serial |-> d.serial, cats |-> cats]
  BY <1>3 DEF Dictionary
<1>6. e \in Dictionary /\ e.serial = d.serial /\ e.cats = cats
  <2> DEFINE r == [serial |-> d.serial, cats |-> cats]
  <2>1. r \in Dictionary /\ r.serial = d.serial /\ r.cats = cats
    BY <1>1, <1>4, DictionaryNew
  <2>2. e = r
    BY <1>5
  <2> HIDE DEF r
  <2> QED
    BY <2>1, <2>2, Zenon
<1> QED
  BY <1>4, <1>6 DEF c

\* A dictionary with one more category.
LEMMA DictionaryAppend ==
  ASSUME NEW d \in Dictionary, NEW c \in Category, NEW e, e = [d EXCEPT !.cats = Append(@, c)]
  PROVE  /\ e \in Dictionary /\ e.serial = d.serial /\ Len(e.cats) = Len(d.cats) + 1
         /\ \A i \in 1..Len(d.cats) : e.cats[i] = d.cats[i]
         /\ e.cats[Len(d.cats) + 1] = c
<1> DEFINE cats == Append(d.cats, c)
<1>1. d.serial \in Int /\ d.cats \in Seq(Category) /\ Len(d.cats) \in Nat
  BY DictionaryFields
<1>2. /\ cats \in Seq(Category) /\ Len(cats) = Len(d.cats) + 1
      /\ \A i \in 1..Len(d.cats) : cats[i] = d.cats[i]
      /\ cats[Len(d.cats) + 1] = c
  BY <1>1
<1>3. e = [d EXCEPT !.cats = cats]
  OBVIOUS
<1> HIDE DEF cats
<1>4. e = [serial |-> d.serial, cats |-> cats]
  BY <1>3 DEF Dictionary
<1>5. e \in Dictionary /\ e.serial = d.serial /\ e.cats = cats
  <2> DEFINE r == [serial |-> d.serial, cats |-> cats]
  <2>1. r \in Dictionary /\ r.serial = d.serial /\ r.cats = cats
    BY <1>1, <1>2, DictionaryNew
  <2>2. e = r
    BY <1>4
  <2> HIDE DEF r
  <2> QED
    BY <2>1, <2>2, Zenon
<1> QED
  BY <1>2, <1>5

(***************************************************************************)
(* Segments, and the bytes that are written around the items.              *)
(***************************************************************************)
\* The fields of a place in the categories.
LEMMA SegmentFields ==
  ASSUME NEW s \in Segment
  PROVE  /\ s.cat \in Nat /\ s.type \in Type /\ s.open \in BOOLEAN /\ s.n \in Nat
         /\ s.idx \in Nat /\ s.due \in Byte /\ s.due \in Nat /\ s.byte_count \in Nat
<1>1. /\ s.cat \in Nat /\ s.type \in Type /\ s.open \in BOOLEAN /\ s.n \in Nat
      /\ s.idx \in Nat /\ s.due \in Byte /\ s.byte_count \in Nat
  BY DEF Segment
<1> QED
  BY <1>1 DEF Byte

\* A category that is opened, or closed, is such a place.
LEMMA OpenedClosed ==
  /\ \A cat \in Nat : Closed(cat) \in Segment
  /\ \A cat \in Nat, type \in Type, n \in Nat : Opened(cat, type, n) \in Segment
<1>1. 0 \in Type /\ 0 \in Byte
  BY DEF Type, Byte
<1> QED
  BY <1>1 DEF Closed, Opened, Segment

\* What an item adds to the entries that are due, and to the bytes that are
\* counted.
LEMMA Entries ==
  ASSUME NEW s \in Segment, NEW item \in Item(Kind(s))
  PROVE  EntriesDue(s, item) \in Byte /\ Counted(s, item) \in Nat
<1>1. s.due \in Byte
  BY SegmentFields
<1>2. ASSUME Kind(s) = "TAndRXPDO" PROVE nEntry(item) \in Byte
  <2> DEFINE E == [1..8 -> Byte]
  <2>1. item \in [pdo : BOOLEAN, bytes : E]
    BY <1>2, PDOItem
  <2> HIDE DEF E
  <2>2. item.bytes \in E
    BY <2>1
  <2> QED
    BY <2>2 DEF nEntry, E
<1>3. EntriesDue(s, item) \in Byte
  BY <1>1, <1>2 DEF EntriesDue, Byte
<1>4. ASSUME Kind(s) = "Strings" PROVE Len(StringBytes(item)) \in Nat
  <2>1. item \in Seq(Byte)
    BY <1>4, StringsItem DEF ByteSeq
  <2>2. item \in Seq(Byte \cup {Len(item)}) /\ <<Len(item)>> \in Seq(Byte \cup {Len(item)})
    BY <2>1
  <2> QED
    BY <2>2, ConcatProperties DEF StringBytes
<1> QED
  BY <1>3, <1>4 DEF Counted

\* The place behind an item.
LEMMA AdvanceFields ==
  ASSUME NEW s \in Segment, NEW item \in Item(Kind(s))
  PROVE  /\ Advance(s, item) \in Segment
         /\ Advance(s, item).cat = s.cat /\ Advance(s, item).type = s.type
         /\ Advance(s, item).open = s.open /\ Advance(s, item).n = s.n
         /\ Advance(s, item).idx = s.idx + 1
         /\ Advance(s, item).due = EntriesDue(s, item)
         /\ Advance(s, item).byte_count = s.byte_count + Counted(s, item)
<1> DEFINE e == EntriesDue(s, item)
           n == Counted(s, item)
<1>1. e \in Byte /\ n \in Nat
  BY Entries
<1>2. Advance(s, item) = [s EXCEPT !.idx = s.idx + 1, !.byte_count = s.byte_count + n, !.due = e]
  BY DEF Advance
<1> HIDE DEF e, n
<1>3. s.idx \in Nat /\ s.byte_count \in Nat
  BY SegmentFields
<1>4. s.idx + 1 \in Nat /\ s.byte_count + n \in Nat
  BY <1>1, <1>3
<1> QED
  BY <1>1, <1>2, <1>4 DEF Segment, e, n

\* The two bytes of a word are its low and its high one.
LEMMA WritesWord ==
  ASSUME NEW w \in Word16
  PROVE  /\ WordBytes(w) \in ByteSeq /\ Len(WordBytes(w)) = 2
         /\ WordBytes(w)[1] + 256 * WordBytes(w)[2] = w
<1>1. w % 256 \in Byte /\ w \div 256 \in Byte /\ (w % 256) + 256 * (w \div 256) = w
  BY DEF Word16, Byte
<1> QED
  BY <1>1 DEF WordBytes, ByteSeq

\* Zeros are bytes.
LEMMA WritesZeros == \A n \in Nat : Zeros(n) \in ByteSeq /\ Len(Zeros(n)) = n
<1>1. 0 \in Byte
  BY DEF Byte
<1> QED
  BY <1>1 DEF Zeros, ByteSeq

\* The four bytes of a serial number that fits make that number again.
LEMMA WritesDoubleWord ==
  ASSUME NEW v \in Int, DoubleWordFits(v)
  PROVE  /\ DoubleWord(v) \in ByteSeq /\ Len(DoubleWord(v)) = 4
         /\ (DoubleWord(v)[1] + 256 * DoubleWord(v)[2])
              + 65536 * (DoubleWord(v)[3] + 256 * DoubleWord(v)[4]) = v
<1>1. /\ v % 256 \in Byte /\ (v \div 256) % 256 \in Byte
      /\ (v \div 65536) % 256 \in Byte /\ v \div 16777216 \in Byte
  BY DEF DoubleWordFits, Byte
<1>2. ((v % 256) + 256 * ((v \div 256) % 256))
        + 65536 * (((v \div 65536) % 256) + 256 * (v \div 16777216)) = v
  OBVIOUS
<1> QED
  BY <1>1, <1>2 DEF DoubleWord, ByteSeq

\* The padding is as many bytes as are odd.
LEMMA WritesPadding ==
  ASSUME NEW s \in Segment
  PROVE  Padding(s) \in ByteSeq /\ Len(Padding(s)) = Odd(s) /\ Odd(s) \in 0..1
<1>1. s.byte_count \in Nat
  BY SegmentFields
<1>2. Odd(s) \in 0..1
  BY <1>1 DEF Odd
<1>3. 255 \in Byte
  BY DEF Byte
<1> QED
  BY <1>2, <1>3 DEF Padding, ByteSeq

\* What is between two other parts of a file.
LEMMA Between ==
  ASSUME NEW z \in ByteSeq, NEW w \in ByteSeq, NEW e \in ByteSeq
  PROVE  /\ (z \o w) \o e \in ByteSeq /\ Len((z \o w) \o e) = Len(z) + Len(w) + Len(e)
         /\ \A i \in 1..Len(w) : ByteAt((z \o w) \o e, Len(z) + i - 1) = w[i]
<1> DEFINE zw == z \o w
           g == zw \o e
<1>1. Len(z) \in Nat /\ Len(w) \in Nat /\ Len(e) \in Nat
  BY LenOf
<1>2. /\ zw \in ByteSeq /\ Len(zw) = Len(z) + Len(w)
      /\ \A i \in 1..Len(w) : ByteAt(zw, Len(z) + i - 1) = w[i]
  BY Longer
<1> HIDE DEF zw
<1>3. /\ g \in ByteSeq /\ Len(g) = Len(zw) + Len(e)
      /\ \A p \in Nat : p < Len(zw) => ByteAt(g, p) = ByteAt(zw, p)
  BY <1>2, Longer
<1> HIDE DEF g
<1>4. \A i \in 1..Len(w) : Len(z) + i - 1 \in Nat /\ Len(z) + i - 1 < Len(zw)
  BY <1>1, <1>2
<1>5. \A i \in 1..Len(w) : ByteAt(g, Len(z) + i - 1) = w[i]
  BY <1>2, <1>3, <1>4
<1>6. g \in ByteSeq /\ Len(g) = Len(z) + Len(w) + Len(e)
  BY <1>1, <1>2, <1>3
<1> QED
  BY <1>5, <1>6 DEF g, zw

\* The fields before the categories.
LEMMA WritesFieldsBefore ==
  ASSUME NEW v \in Int, DoubleWordFits(v), NEW g,
         g = Zeros(SerialNumber) \o DoubleWord(v) \o Zeros(Header - SerialNumber - 4)
  PROVE  /\ g \in ByteSeq /\ Len(g) = Header
         /\ DoubleWordAt(g, SerialNumber) = v
<1> DEFINE z == Zeros(28)
           w == DoubleWord(v)
           e == Zeros(96)
<1>1. z \in ByteSeq /\ Len(z) = 28 /\ e \in ByteSeq /\ Len(e) = 96
  BY WritesZeros
<1>2. w \in ByteSeq /\ Len(w) = 4
  BY WritesDoubleWord
<1>3. (w[1] + 256 * w[2]) + 65536 * (w[3] + 256 * w[4]) = v
  BY WritesDoubleWord
<1> HIDE DEF z, w, e
<1> DEFINE f == (z \o w) \o e
<1>4. /\ f \in ByteSeq /\ Len(f) = Len(z) + Len(w) + Len(e)
      /\ \A i \in 1..Len(w) : ByteAt(f, Len(z) + i - 1) = w[i]
  <2>1. z \in ByteSeq /\ w \in ByteSeq /\ e \in ByteSeq
    BY <1>1, <1>2
  <2> QED
    BY <2>1, Between, Zenon
<1> HIDE DEF f
<1>5. Len(f) = 128
  BY <1>1, <1>2, <1>4
<1>6. \A i \in 1..Len(w) : ByteAt(f, 27 + i) = w[i]
  <2>1. \A i \in 1..Len(w) : 28 + i - 1 = 27 + i
    BY <1>2
  <2> QED
    BY <1>1, <1>4, <2>1
<1>7. ByteAt(f, 28) = w[1] /\ ByteAt(f, 29) = w[2] /\ ByteAt(f, 30) = w[3] /\ ByteAt(f, 31) = w[4]
  <2>1. 1 \in 1..Len(w) /\ 2 \in 1..Len(w) /\ 3 \in 1..Len(w) /\ 4 \in 1..Len(w)
    BY <1>2
  <2>2. ByteAt(f, 27 + 1) = w[1] /\ ByteAt(f, 27 + 2) = w[2] /\ ByteAt(f, 27 + 3) = w[3] /\ ByteAt(f, 27 + 4) = w[4]
    BY <1>6, <2>1
  <2> QED
    BY <2>2
<1>8. DoubleWordAt(f, SerialNumber) = v
  <2>1. Word(f, 28) = w[1] + 256 * w[2] /\ Word(f, 30) = w[3] + 256 * w[4]
    BY <1>7 DEF Word
  <2> QED
    BY <1>3, <2>1 DEF SerialNumber, DoubleWordAt
<1>9. g = f
  <2>1. Header = 128 /\ SerialNumber = 28
    BY DEF Header, SerialNumber
  <2>2. Header - SerialNumber - 4 = 96
    BY <2>1
  <2>3. g = Zeros(28) \o DoubleWord(v) \o Zeros(96)
    BY <2>1, <2>2
  <2> QED
    BY <2>3 DEF f, z, w, e
<1>10. Header = 128
  BY DEF Header
<1>11. g \in ByteSeq /\ Len(g) = Header
  <2>1. f \in ByteSeq
    BY <1>4
  <2> QED
    BY <1>5, <1>9, <1>10, <2>1
<1>12. DoubleWordAt(g, SerialNumber) = v
  BY <1>8, <1>9
<1> QED
  BY <1>11, <1>12

(***************************************************************************)
(* The invariant.                                                          *)
(***************************************************************************)
\* A mark: where a reader of the file is between two of its steps. The next one
\* is where a step takes it, if there is enough of the file.
Mark == [seg : Segment, pos : Nat]
First == [seg |-> Closed(0), pos |-> Header]
Reach(f, m) ==
  IF ~m.seg.open
    THEN [seg |-> Opened(m.seg.cat + 1, TypeAt(f, m.pos), CountAt(f, m.pos)), pos |-> HeaderEnd(f, m.pos)]
  ELSE IF More(m.seg)
    THEN [seg |-> Advance(m.seg, ItemAt(f, m.seg, m.pos)), pos |-> ItemEnd(f, m.seg, m.pos)]
    ELSE [seg |-> Closed(m.seg.cat), pos |-> m.pos + Odd(m.seg)]
Behind(f, m) ==
  /\ Reach(f, m).pos <= Len(f)
  /\ ~m.seg.open => Word(f, m.pos) # 65535

\* A place in the categories of a dictionary.
Within(d, s) ==
  /\ s.cat <= Len(d.cats)
  /\ ~s.open => s = Closed(s.cat)
  /\ s.open => s.cat >= 1 /\ s.type = d.cats[s.cat].type /\ Has_key(s.type)

\* From the k-th item on the entries of a PDO go on up to the n-th, and another
\* PDO follows them.
Block(items, k, n) ==
  /\ k <= n /\ n <= Len(items)
  /\ \A j \in 1..Len(items) : k < j /\ j <= n => ~items[j].pdo
  /\ n < Len(items) => items[n + 1].pdo

\* A place the program can be at in a proper category.
OnTrack(d, s) ==
  (s.open /\ Proper(d.cats[s.cat])) =>
    /\ s.n = Len(d.cats[s.cat].items) /\ s.idx <= s.n
    /\ IF Kind(s) = "TAndRXPDO" THEN Block(d.cats[s.cat].items, s.idx, s.idx + s.due) ELSE s.due = 0

\* What is read at a mark is what the dictionary has there.
Copied(d, f, m) ==
  /\ ~m.seg.open => m.seg.cat < Len(d.cats) /\ TypeAt(f, m.pos) = d.cats[m.seg.cat + 1].type
  /\ m.seg.open /\ More(m.seg) =>
       LET items == d.cats[m.seg.cat].items
       IN m.seg.idx < Len(items) /\ ItemAt(f, m.seg, m.pos) = items[m.seg.idx + 1]

\* The marks from the first category to the front of what is written.
Trail(d, f, M, cur) ==
  /\ M \subseteq Mark /\ First \in M /\ cur \in M
  /\ Header <= Len(f) /\ DoubleWordAt(f, SerialNumber) = d.serial
  /\ \A m \in M : Within(d, m.seg) /\ OnTrack(d, m.seg)
  /\ \A m \in M : m # cur => Behind(f, m) /\ Copied(d, f, m) /\ Reach(f, m) \in M

\* The front of a file that was broken off, and of a complete one.
Stops(f, m) ==
  IF m.seg.open THEN More(m.seg) /\ ItemEnd(f, m.seg, m.pos) > Len(f)
  ELSE Has(f, m.pos, 2) => Word(f, m.pos) # 65535 /\ HeaderEnd(f, m.pos) > Len(f)
Ends(d, f, m) ==
  ~m.seg.open /\ m.seg.cat = Len(d.cats) /\ Has(f, m.pos, 2) /\ Word(f, m.pos) = 65535

AllAligned(d) == \A i \in 1..Len(d.cats) : Aligned(d.cats[i])
AllProper(d) == \A i \in 1..Len(d.cats) : Proper(d.cats[i])

\* The front of the trail: where the writer is, or where the file stops or ends.
\* Only a writer that is done has left a complete file.
Front(cur) ==
  /\ task = "write" => cur = [seg |-> seg, pos |-> Len(file)] /\ ~complete
  /\ task = "size" =>
       /\ cur = [seg |-> Closed(seg.cat), pos |-> Len(file) - 2] /\ ~complete
       /\ Word(file, cur.pos) = dict.cats[seg.cat + 1].type
  /\ task \in {"written", "raised", "read", "refused", "done"} =>
       IF complete THEN Ends(dict, file, cur) ELSE Stops(file, cur) /\ ~AllProper(dict)
  /\ task \in {"written", "done"} => complete
  /\ task \in {"raised", "refused"} => ~complete

\* What has been read: the categories up to the mark, and items of the open one.
ReadSoFar(s) ==
  /\ got.serial = dict.serial
  /\ \A i \in 1..Len(got.cats) :
       IF s.open /\ i = s.cat
         THEN /\ got.cats[i].type = dict.cats[i].type /\ got.cats[i].vendor = 0 /\ got.cats[i].pads = 0
              /\ Len(got.cats[i].items) = s.idx
              /\ \A j \in 1..s.idx : got.cats[i].items[j] = dict.cats[i].items[j]
         ELSE got.cats[i] = Unpadded(dict.cats[i])
\* The reader is at a mark, and what it has read so far is what the dictionary has.
Reading(M) ==
  /\ task = "read" => [seg |-> seg, pos |-> pos] \in M
  /\ task = "read" /\ AllProper(dict) => ReadSoFar(seg)
  /\ task = "done" /\ AllProper(dict) => got = [dict EXCEPT !.cats = [i \in DOMAIN @ |-> Unpadded(@[i])]]

\* The file of another tool, and one that breaks off in the fields.
Foreign == complete /\ file \in Files /\ task \in {"written", "read", "refused", "done"}
Short == ~complete /\ ~DoubleWordFits(dict.serial) /\ Len(file) < Header /\ task \in {"raised", "refused"}

\* How far the size of a category has been computed.
Sized ==
  task = "size" /\ Proper(dict.cats[seg.cat + 1]) =>
    LET c == dict.cats[seg.cat + 1]
    IN /\ Kind(c) = "Strings" => seg.idx <= Len(c.items) /\ seg.byte_count <= 1 + 256 * seg.idx
       /\ Kind(c) = "TAndRXPDO" => seg.idx <= Len(c.items) /\ Block(c.items, seg.idx, seg.n)

\* Where the program is.
Placed ==
  /\ task = "idle" => pos = 0
  /\ task = "write" => Within(dict, seg)
  /\ task = "size" => ~seg.open /\ seg.cat < Len(dict.cats) /\ Has_key(dict.cats[seg.cat + 1].type)
  /\ task = "read" => /\ Len(got.cats) = seg.cat
                      /\ ~seg.open => seg = Closed(seg.cat)
                      /\ seg.open => seg.cat >= 1 /\ got.cats[seg.cat].type = seg.type

\* What the file is: another tool's, or one that broke off in the fields, or one
\* with a trail.
Written ==
  AllAligned(dict) /\ task # "idle" =>
    Foreign \/ Short \/ \E M \in SUBSET Mark : \E cur \in M :
                          Trail(dict, file, M, cur) /\ Front(cur) /\ Reading(M)

\* Together they are inductive.
IInv == TypeOK /\ Placed /\ Sized /\ Written

(***************************************************************************)
(* Types.                                                                  *)
(***************************************************************************)
\* The types, and where the program is, at the start.
LEMMA TypeInit == Init => TypeOK /\ Placed
<1> SUFFICES ASSUME Init PROVE TypeOK /\ Placed
  OBVIOUS
<1>1. dict \in Dictionary
  BY EepromAssumption DEF Init
<1>2. got \in Dictionary
  <2> DEFINE none == <<>>
  <2>1. none \in Seq(Category)
    OBVIOUS
  <2> HIDE DEF none
  <2>2. [serial |-> 0, cats |-> none] \in Dictionary
    BY <2>1, DictionaryNew
  <2> QED
    BY <2>2 DEF Init, none
<1>3. file \in ByteSeq /\ Len(file) \in Nat
  <2>1. <<>> \in ByteSeq
    BY DEF ByteSeq
  <2>2. file \in ByteSeq
    BY <2>1, EepromAssumption DEF Init
  <2> QED
    BY <2>2, LenOf
<1>4. seg \in Segment
  BY OpenedClosed DEF Init
<1>5. TypeOK
  <2>1. pos \in 0..Len(file) /\ generation \in 0..Generations
    BY <1>3, EepromAssumption DEF Init
  <2>2. task \in {"idle", "written"} /\ complete \in BOOLEAN
    BY DEF Init
  <2> QED
    BY <1>1, <1>2, <1>3, <1>4, <2>1, <2>2 DEF TypeOK
<1>6. Placed
  BY DEF Init, Placed
<1> QED
  BY <1>5, <1>6

\* The bytes that are appended, and what they leave as it is.
LEMMA TypeAppend ==
  ASSUME TypeOK, NEW b \in ByteSeq, file' = file \o b,
         UNCHANGED <<dict, pos, got, generation>>, seg' \in Segment, complete' \in BOOLEAN,
         task' \in {"write", "size", "written", "raised"}
  PROVE  TypeOK'
<1>1. file' \in ByteSeq /\ Len(file') = Len(file) + Len(b)
  BY Joined DEF TypeOK
<1>2. Len(file) \in Nat /\ Len(b) \in Nat
  BY LenOf DEF TypeOK
<1> QED
  BY <1>1, <1>2 DEF TypeOK

\* The category that is written, and the item.
LEMMA WritesCategory ==
  ASSUME TypeOK, seg.cat < Len(dict.cats)
  PROVE  dict.cats[seg.cat + 1] \in Category
<1>1. seg.cat \in Nat
  BY SegmentFields DEF TypeOK
<1>2. seg.cat + 1 \in 1..Len(dict.cats)
  BY <1>1, DictionaryFields DEF TypeOK
<1> QED
  BY <1>2, DictionaryFields DEF TypeOK

\* At a place of a dictionary its open category is one of the dictionary, and of
\* a known kind.
LEMMA WithinKind ==
  ASSUME NEW d \in Dictionary, NEW s \in Segment, Within(d, s), s.open
  PROVE  /\ s.cat \in 1..Len(d.cats) /\ d.cats[s.cat] \in Category /\ s.type = d.cats[s.cat].type
         /\ Kind(s) = Kind(d.cats[s.cat])
         /\ Kind(s) \in {"Strings", "GeneralInfo", "FMMU", "SyncM", "TAndRXPDO"}
         /\ Len(d.cats[s.cat].items) \in Nat
         /\ s.idx < Len(d.cats[s.cat].items) => d.cats[s.cat].items[s.idx + 1] \in Item(Kind(s))
<1>1. s.cat \in 1..Len(d.cats)
  BY SegmentFields, DictionaryFields DEF Within
<1>2. d.cats[s.cat] \in Category /\ s.type = d.cats[s.cat].type /\ Has_key(s.type)
  BY <1>1, DictionaryFields DEF Within
<1>3. Kind(s) = Kind(d.cats[s.cat])
  BY <1>2 DEF Kind
<1>4. Kind(s) \in {"Strings", "GeneralInfo", "FMMU", "SyncM", "TAndRXPDO"}
  BY <1>2, KindCases DEF Kind, Has_key
<1>5. /\ Len(d.cats[s.cat].items) \in Nat
      /\ \A i \in 1..Len(d.cats[s.cat].items) : d.cats[s.cat].items[i] \in Item(Kind(s))
  BY <1>2, <1>3, CategoryFields
<1>6. s.idx < Len(d.cats[s.cat].items) => s.idx + 1 \in 1..Len(d.cats[s.cat].items)
  BY <1>5, SegmentFields, SMTT(30)
<1> QED
  BY <1>1, <1>2, <1>3, <1>4, <1>5, <1>6

\* m3rt_eeprom keeps the types, and the program where it can be.
LEMMA Type_m3rt_eeprom ==
  ASSUME TypeOK, Placed, NEW n \in Names, NEW s \in Serials, m3rt_eeprom(n, s)
  PROVE  TypeOK' /\ Placed'
<1> DEFINE c == dict.cats[1]
           items == [c.items EXCEPT ![2] = @ \o n]
           cats == [dict.cats EXCEPT ![1] = [c EXCEPT !.items = items]]
<1>1. dict \in Dictionary /\ n \in ByteSeq /\ s \in Int
  BY EepromAssumption DEF TypeOK
<1>2. dict.cats \in Seq(Category) /\ 1 \in 1..Len(dict.cats) /\ c \in Category
  BY <1>1, DictionaryFields DEF m3rt_eeprom
<1>3. Kind(c) = "Strings"
  BY DEF m3rt_eeprom, Kind, id_to_category_spec
<1>4. c.items \in Seq(ByteSeq) /\ 2 \in 1..Len(c.items)
  BY <1>2, <1>3, CategoryFields, StringsItem DEF m3rt_eeprom
<1>5. c.items[2] \o n \in ByteSeq
  <2>1. c.items[2] \in ByteSeq
    BY <1>4
  <2> QED
    BY <1>1, <2>1, Joined
<1>6. items \in Seq(ByteSeq)
  BY <1>4, <1>5
<1>7. [c EXCEPT !.items = items] \in Category
  BY <1>2, <1>3, <1>6, CategoryWith, StringsItem
<1>8. cats \in Seq(Category)
  BY <1>2, <1>7
<1>9. dict' = [serial |-> s, cats |-> cats]
  BY DEF m3rt_eeprom
<1> HIDE DEF cats
<1>10. [serial |-> s, cats |-> cats] \in Dictionary
  BY <1>1, <1>8, DictionaryNew
<1>11. TypeOK'
  BY <1>9, <1>10 DEF m3rt_eeprom, TypeOK
<1> QED
  BY <1>11 DEF m3rt_eeprom, Placed

\* dict_to_eeprom keeps the types, and the program where it can be.
LEMMA Type_dict_to_eeprom ==
  ASSUME TypeOK, Placed, dict_to_eeprom
  PROVE  TypeOK' /\ Placed'
<1>1. seg' = Closed(0) /\ Closed(0) \in Segment
  BY OpenedClosed DEF dict_to_eeprom
<1>2. dict \in Dictionary /\ dict.serial \in Int /\ Len(dict.cats) \in Nat
  BY DictionaryFields DEF TypeOK
<1>3. file' \in ByteSeq
  BY <1>2, WritesFieldsBefore, WritesZeros DEF dict_to_eeprom, SerialNumber
<1>4. pos' = 0 /\ 0 \in 0..Len(file') /\ task' \in {"write", "raised"}
  BY <1>3, LenOf DEF dict_to_eeprom, Placed
<1>5. TypeOK'
  BY <1>1, <1>3, <1>4 DEF dict_to_eeprom, TypeOK
<1>6. Within(dict', seg')
  BY <1>1, <1>2 DEF dict_to_eeprom, Within, Closed
<1> QED
  BY <1>4, <1>5, <1>6 DEF Placed

\* write_category keeps the types, and the program where it can be.
LEMMA Type_write_category ==
  ASSUME TypeOK, Placed, write_category
  PROVE  TypeOK' /\ Placed'
<1> DEFINE c == dict.cats[seg.cat + 1]
<1>1. c \in Category /\ c.type \in Type
  BY WritesCategory, CategoryFields DEF write_category
<1>2. c.type \in Word16 /\ <<>> \in ByteSeq
  BY <1>1 DEF Type, Word16, ByteSeq
<1>3. PICK b \in ByteSeq : file' = file \o b
  <2>1. file \o <<>> = file
    BY DEF TypeOK, ByteSeq
  <2>2. file' = file \o <<>> \/ file' = file \o WordBytes(c.type)
    BY <2>1 DEF write_category
  <2> QED
    BY <1>2, <2>2, WritesWord
<1>4. task' \in {"raised", "size"} /\ (task' = "size" => Has_key(c.type))
  BY DEF write_category
<1>5. TypeOK'
  <2>1. seg' \in Segment /\ complete' \in BOOLEAN
    BY DEF write_category, TypeOK
  <2> QED
    BY <1>3, <1>4, <2>1, TypeAppend DEF write_category
<1> QED
  BY <1>4, <1>5 DEF write_category, Placed

\* compute_word_size keeps the types, and the program where it can be.
LEMMA Type_compute_word_size ==
  ASSUME TypeOK, Placed, compute_word_size
  PROVE  TypeOK' /\ Placed'
<1> DEFINE c == dict.cats[seg.cat + 1]
           item == c.items[seg.idx + 1]
<1>1. c \in Category /\ seg \in Segment
  BY WritesCategory DEF compute_word_size, Placed, TypeOK
<1>2. seg.idx \in Nat /\ seg.byte_count \in Nat /\ seg.n \in Nat
  BY <1>1, SegmentFields
<1>3. seg.idx + 1 \in 1..Len(c.items)
  BY <1>1, <1>2, CategoryFields DEF compute_word_size, Sizing
<1>4. item \in Item(Kind(c))
  BY <1>1, <1>3, CategoryFields
<1> HIDE DEF item, c
<1>5. ASSUME Kind(c) = "Strings" PROVE seg.byte_count + 1 + Len(item) \in Nat
  BY <1>2, <1>4, <1>5, StringsItem, LenOf
<1>6. ASSUME Kind(c) = "TAndRXPDO" PROVE nEntry(item) \in Nat
  <2> DEFINE E == [1..8 -> Byte]
  <2>1. item \in [pdo : BOOLEAN, bytes : E]
    BY <1>4, <1>6, PDOItem
  <2> HIDE DEF E
  <2>2. item.bytes \in E
    BY <2>1
  <2> QED
    BY <2>2 DEF nEntry, E, Byte
<1>7. \/ /\ Kind(c) = "Strings"
         /\ seg' = [seg EXCEPT !.idx = seg.idx + 1, !.byte_count = seg.byte_count + 1 + Len(item)]
      \/ /\ Kind(c) = "TAndRXPDO"
         /\ seg' = [seg EXCEPT !.idx = seg.idx + 1, !.n = seg.n + (IF item.pdo THEN 1 + nEntry(item) ELSE 0)]
  BY DEF compute_word_size, Sizing, c, item
<1>8. seg' \in Segment /\ seg'.cat = seg.cat /\ seg'.open = seg.open
  <2>1. CASE Kind(c) = "Strings"
    <3> DEFINE x == seg.byte_count + 1 + Len(item)
    <3>1. x \in Nat /\ seg.idx + 1 \in Nat
      BY <1>2, <1>5, <2>1
    <3>2. seg' = [seg EXCEPT !.idx = seg.idx + 1, !.byte_count = x]
      BY <1>7, <2>1
    <3> HIDE DEF x
    <3> QED
      BY <1>1, <3>1, <3>2 DEF Segment
  <2>2. CASE Kind(c) = "TAndRXPDO"
    <3> DEFINE x == seg.n + (IF item.pdo THEN 1 + nEntry(item) ELSE 0)
    <3>1. x \in Nat /\ seg.idx + 1 \in Nat
      BY <1>2, <1>6, <2>2
    <3>2. seg' = [seg EXCEPT !.idx = seg.idx + 1, !.n = x]
      BY <1>7, <2>2
    <3> HIDE DEF x
    <3> QED
      BY <1>1, <3>1, <3>2 DEF Segment
  <2> QED
    BY <1>7, <2>1, <2>2
<1>9. TypeOK'
  BY <1>8 DEF compute_word_size, TypeOK
<1> QED
  BY <1>8, <1>9 DEF compute_word_size, Placed

\* write_size keeps the types, and the program where it can be.
LEMMA Type_write_size ==
  ASSUME TypeOK, Placed, write_size
  PROVE  TypeOK' /\ Placed'
<1> DEFINE c == dict.cats[seg.cat + 1]
           size == word_size(c, seg)
           count == IF Kind(c) = "Strings" THEN <<Len(c.items)>> ELSE <<>>
           n == IF Kind(c) = "TAndRXPDO" THEN seg.n ELSE Len(c.items)
<1>1. c \in Category /\ seg \in Segment /\ dict \in Dictionary
  BY WritesCategory DEF write_size, Placed, TypeOK
<1>2. c.type \in Type /\ Len(c.items) \in Nat /\ seg.n \in Nat /\ seg.cat \in Nat
  BY <1>1, CategoryFields, SegmentFields
<1>3. task' \in {"raised", "write"} /\ UNCHANGED <<dict, pos, got, complete, generation>>
  BY DEF write_size
<1>4. CASE task' = "raised"
  <2>1. PICK b \in ByteSeq : file' = file \o b
    <3>1. file \o <<>> = file /\ <<>> \in ByteSeq
      BY DEF TypeOK, ByteSeq
    <3>2. file' = file \o <<>> \/ (size \in Word16 /\ file' = file \o WordBytes(size))
      BY <1>4, <3>1 DEF write_size
    <3> QED
      BY <3>1, <3>2, WritesWord
  <2>2. seg' = seg
    BY <1>4 DEF write_size
  <2>3. TypeOK'
    <3>1. complete' \in BOOLEAN
      BY <1>3 DEF TypeOK
    <3> QED
      BY <1>1, <1>3, <1>4, <2>1, <2>2, <3>1, TypeAppend
  <2> QED
    BY <1>4, <2>3 DEF Placed
<1>5. CASE task' = "write"
  <2>1. /\ size \in Word16 /\ file' = file \o WordBytes(size) \o count
        /\ (Kind(c) = "Strings" => Len(c.items) <= 255) /\ seg' = Opened(seg.cat + 1, c.type, n)
    <3>1. IF size \notin Word16
            THEN task' = "raised" /\ UNCHANGED <<file, seg>>
          ELSE IF Kind(c) = "Strings" /\ Len(c.items) > 255
            THEN task' = "raised" /\ file' = file \o WordBytes(size) /\ UNCHANGED seg
          ELSE /\ task' = "write" /\ file' = file \o WordBytes(size) \o count
               /\ seg' = Opened(seg.cat + 1, c.type, n)
      BY DEF write_size
    <3> HIDE DEF size, count, n
    <3>2. ~(Kind(c) = "Strings" /\ Len(c.items) > 255) => (Kind(c) = "Strings" => Len(c.items) <= 255)
      BY <1>2
    <3> QED
      BY <1>5, <3>1, <3>2
  <2>2. count \in ByteSeq
    <3>1. CASE Kind(c) = "Strings"
      <4>1. Len(c.items) \in Byte
        BY <1>2, <2>1, <3>1 DEF Byte
      <4>2. count = <<Len(c.items)>>
        BY <3>1
      <4> HIDE DEF count
      <4> QED
        BY <4>1, <4>2 DEF ByteSeq
    <3>2. CASE Kind(c) # "Strings"
      BY <3>2 DEF ByteSeq
    <3> QED
      BY <3>1, <3>2
  <2> DEFINE w == WordBytes(size)
  <2>3. w \in ByteSeq
    BY <2>1, WritesWord
  <2>4. file' = (file \o w) \o count
    BY <2>1
  <2> HIDE DEF count, w, size
  <2>5. file' = file \o (w \o count) /\ w \o count \in ByteSeq
    BY <2>2, <2>3, <2>4, ConcatAssociative, Joined, SMTT(30) DEF TypeOK, ByteSeq
  <2>6. seg' \in Segment
    BY <1>2, <2>1, OpenedClosed
  <2>7. TypeOK'
    <3>1. complete' \in BOOLEAN
      BY <1>3 DEF TypeOK
    <3> QED
      BY <1>1, <1>3, <1>5, <2>5, <2>6, <3>1, TypeAppend
  <2>8. Within(dict', seg')
    <3>1. seg.cat < Len(dict.cats) /\ Has_key(c.type)
      BY DEF write_size, Placed
    <3>2. dict' = dict /\ Len(dict.cats) \in Nat
      BY <1>1, <1>3, DictionaryFields
    <3> QED
      BY <1>2, <2>1, <3>1, <3>2 DEF Within, Opened
  <2> QED
    BY <1>5, <2>7, <2>8 DEF Placed
<1> QED
  BY <1>3, <1>4, <1>5

\* write_item keeps the types, and the program where it can be.
LEMMA Type_write_item ==
  ASSUME TypeOK, Placed, write_item
  PROVE  TypeOK' /\ Placed'
<1> DEFINE items == dict.cats[seg.cat].items
           item == items[seg.idx + 1]
           b == ItemBytes(Kind(seg), item)
<1>1. dict \in Dictionary /\ seg \in Segment /\ Within(dict, seg) /\ seg.open
  BY DEF TypeOK, Placed, write_item
<1>2. /\ Kind(seg) \in {"Strings", "GeneralInfo", "FMMU", "SyncM", "TAndRXPDO"}
      /\ Len(items) \in Nat /\ seg.idx \in Nat
      /\ seg.idx < Len(items) => item \in Item(Kind(seg))
  BY <1>1, WithinKind, SegmentFields, SMTT(30)
<1> HIDE DEF items
<1>3. /\ UNCHANGED <<dict, pos, got, complete, generation>>
      /\ IF seg.idx >= Len(items) \/ ItemRaises(seg, item)
           THEN task' = "raised" /\ UNCHANGED <<file, seg>>
           ELSE file' = file \o b /\ seg' = Advance(seg, item) /\ UNCHANGED task
  BY DEF write_item, items
<1> HIDE DEF item, b
<1>4. CASE seg.idx >= Len(items) \/ ItemRaises(seg, item)
  BY <1>3, <1>4 DEF TypeOK, Placed
<1>5. CASE ~(seg.idx >= Len(items) \/ ItemRaises(seg, item))
  <2>1. item \in Item(Kind(seg))
    BY <1>2, <1>5
  <2>2. Kind(seg) = "Strings" => Len(item) <= 255
    <3>1. Kind(seg) = "Strings" => item \in ByteSeq /\ ~(Len(item) > 255)
      BY <1>5, <2>1, StringsItem DEF ItemRaises
    <3> QED
      BY <3>1, LenOf
  <2>3. b \in ByteSeq
    BY <1>2, <2>1, <2>2, WritesItem DEF b
  <2>4. seg' \in Segment /\ seg'.cat = seg.cat /\ seg'.type = seg.type /\ seg'.open = seg.open
    BY <1>1, <1>3, <1>5, <2>1, AdvanceFields
  <2>5. file' = file \o b /\ task' = "write" /\ complete' \in BOOLEAN
    BY <1>3, <1>5, SMTT(30) DEF write_item, TypeOK
  <2>6. TypeOK'
    BY <1>3, <2>3, <2>4, <2>5, TypeAppend
  <2>7. Within(dict', seg')
    BY <1>1, <1>3, <2>4 DEF Within
  <2> QED
    BY <2>5, <2>6, <2>7 DEF Placed
<1> QED
  BY <1>4, <1>5, SMTT(30)

\* write_padding keeps the types, and the program where it can be.
LEMMA Type_write_padding ==
  ASSUME TypeOK, Placed, write_padding
  PROVE  TypeOK' /\ Placed'
<1>1. seg \in Segment /\ Within(dict, seg)
  BY DEF TypeOK, Placed, write_padding
<1>2. seg' = Closed(seg.cat) /\ Closed(seg.cat) \in Segment
  BY <1>1, OpenedClosed, SegmentFields DEF write_padding
<1>3. /\ file' = file \o Padding(seg) /\ UNCHANGED <<dict, task, pos, got, complete, generation>>
      /\ task = "write"
  BY DEF write_padding
<1>4. Padding(seg) \in ByteSeq
  BY <1>1, WritesPadding
<1>5. task' = "write" /\ complete' \in BOOLEAN /\ UNCHANGED <<dict, pos, got, generation>>
  BY <1>3 DEF TypeOK
<1>6. TypeOK'
  BY <1>2, <1>3, <1>4, <1>5, TypeAppend
<1>7. Within(dict', seg')
  BY <1>1, <1>2, <1>5 DEF Within, Closed
<1> QED
  BY <1>5, <1>6, <1>7 DEF Placed

\* write_footer keeps the types, and the program where it can be.
LEMMA Type_write_footer ==
  ASSUME TypeOK, Placed, write_footer
  PROVE  TypeOK' /\ Placed'
<1>1. 65535 \in Word16
  BY DEF Word16
<1> DEFINE b == WordBytes(65535)
<1>2. b \in ByteSeq
  BY <1>1, WritesWord
<1>3. file' = file \o b
  BY DEF write_footer
<1> HIDE DEF b
<1>4. /\ UNCHANGED <<dict, seg, pos, got, generation>>
      /\ task' = "written" /\ complete' = TRUE
  BY DEF write_footer
<1>5. seg' \in Segment /\ complete' \in BOOLEAN
  BY <1>4 DEF TypeOK
<1>6. TypeOK'
  BY <1>2, <1>3, <1>4, <1>5, TypeAppend
<1> QED
  BY <1>4, <1>6 DEF Placed

\* eeprom_to_dict keeps the types, and the program where it can be.
LEMMA Type_eeprom_to_dict ==
  ASSUME TypeOK, Placed, eeprom_to_dict
  PROVE  TypeOK' /\ Placed'
<1>1. file \in ByteSeq /\ Len(file) \in Nat
  BY LenOf DEF TypeOK
<1>2. Header = 128
  BY DEF Header
<1>3. CASE Refused
  BY <1>3 DEF eeprom_to_dict, Refused, TypeOK, Placed
<1>4. CASE ~Refused
  <2> DEFINE v == DoubleWordAt(file, SerialNumber)
             none == <<>>
  <2>1. /\ Has(file, 0, Header) /\ task' = "read" /\ seg' = Closed(0) /\ pos' = Header
        /\ got' = [serial |-> v, cats |-> none]
        /\ UNCHANGED <<dict, file, complete, generation>>
    BY <1>4 DEF eeprom_to_dict
  <2>2. v \in Int
    <3>1. SerialNumber \in Nat /\ SerialNumber + 2 \in Nat
      BY DEF SerialNumber
    <3>2. Word(file, SerialNumber) \in Word16 /\ Word(file, SerialNumber + 2) \in Word16
      BY <1>1, <3>1, ReadsWords
    <3>3. \A a \in Word16, b \in Word16 : a + 65536 * b \in Int
      BY DEF Word16
    <3> QED
      BY <3>2, <3>3 DEF DoubleWordAt
  <2>3. none \in Seq(Category) /\ Len(none) = 0
    OBVIOUS
  <2> HIDE DEF v, none
  <2>4. got' \in Dictionary /\ Len(got'.cats) = 0
    <3> DEFINE r == [serial |-> v, cats |-> none]
    <3>1. r \in Dictionary /\ r.cats = none
      BY <2>2, <2>3, DictionaryNew
    <3>2. got' = r
      BY <2>1
    <3> HIDE DEF r
    <3> QED
      BY <2>3, <3>1, <3>2
  <2>5. pos' \in 0..Len(file')
    BY <1>1, <1>2, <2>1 DEF Has
  <2>6. seg' \in Segment
    BY <2>1, OpenedClosed
  <2>7. TypeOK'
    BY <2>1, <2>4, <2>5, <2>6 DEF TypeOK
  <2>8. Placed'
    BY <2>1, <2>4 DEF Placed, Closed
  <2> QED
    BY <2>7, <2>8
<1> QED
  BY <1>3, <1>4

\* read_category keeps the types, and the program where it can be.
LEMMA Type_read_category ==
  ASSUME TypeOK, Placed, read_category
  PROVE  TypeOK' /\ Placed'
<1>1. /\ file \in ByteSeq /\ Len(file) \in Nat /\ pos \in Nat /\ got \in Dictionary
      /\ seg \in Segment /\ seg.cat \in Nat
  BY LenOf, SegmentFields DEF TypeOK
<1>2. Len(got.cats) = seg.cat /\ UNCHANGED <<dict, file, complete, generation>>
  BY DEF read_category, Placed
<1>6. HeaderEnd(file, pos) \in Nat /\ CountAt(file, pos) \in Nat
  BY <1>1, ReadsHeader
<1>3. CASE Refused
  BY <1>2, <1>3 DEF Refused, TypeOK, Placed
<1>4. CASE task' = "done" /\ UNCHANGED <<seg, pos, got>>
  BY <1>2, <1>4 DEF TypeOK, Placed
<1>5. CASE ~Refused /\ ~(task' = "done" /\ UNCHANGED <<seg, pos, got>>)
  <2> DEFINE t == TypeAt(file, pos)
             c == [type |-> t, vendor |-> 0, items |-> <<>>, pads |-> 0]
  <2>1. /\ HeaderEnd(file, pos) <= Len(file)
        /\ seg' = Opened(seg.cat + 1, t, CountAt(file, pos)) /\ pos' = HeaderEnd(file, pos)
        /\ got' = [got EXCEPT !.cats = Append(@, c)] /\ task' = task /\ task = "read"
    BY <1>5 DEF read_category
  <2>2. t \in Type
    BY <1>1, ReadsWords
  <2>3. c \in Category
    BY <2>2, CategoryNew
  <2>4. c.type = t
    OBVIOUS
  <2> HIDE DEF c
  <2>5. /\ got' \in Dictionary /\ Len(got'.cats) = seg.cat + 1 /\ got'.cats[seg.cat + 1] = c
    BY <1>1, <1>2, <2>1, <2>3, DictionaryAppend
  <2>6. seg' \in Segment /\ pos' \in 0..Len(file')
    <3>1. seg.cat + 1 \in Nat
      BY <1>1
    <3>2. seg' \in Segment
      BY <1>6, <2>1, <2>2, <3>1, OpenedClosed
    <3> QED
      BY <1>1, <1>2, <1>6, <2>1, <3>2
  <2>7. TypeOK'
    BY <1>2, <2>1, <2>5, <2>6 DEF TypeOK
  <2>8. seg'.cat = seg.cat + 1 /\ seg'.open = TRUE /\ seg'.type = t
    BY <2>1 DEF Opened
  <2>9. Placed'
    BY <1>1, <2>1, <2>4, <2>5, <2>8 DEF Placed
  <2> QED
    BY <2>7, <2>9
<1> QED
  BY <1>3, <1>4, <1>5

\* read_item keeps the types, and the program where it can be.
LEMMA Type_read_item ==
  ASSUME TypeOK, Placed, read_item
  PROVE  TypeOK' /\ Placed'
<1>1. /\ file \in ByteSeq /\ Len(file) \in Nat /\ pos \in Nat /\ got \in Dictionary
      /\ seg \in Segment /\ seg.cat \in Nat
  BY LenOf, SegmentFields DEF TypeOK
<1>2. /\ Len(got.cats) = seg.cat /\ UNCHANGED <<dict, file, complete, generation>>
      /\ seg.open /\ seg.cat \in 1..Len(got.cats) /\ got.cats[seg.cat].type = seg.type
  BY <1>1 DEF read_item, Placed
<1>3. CASE Refused
  BY <1>2, <1>3 DEF Refused, TypeOK, Placed
<1>4. CASE ~Refused
  <2> DEFINE item == ItemAt(file, seg, pos)
             items == Append(got.cats[seg.cat].items, item)
  <2>1. /\ ItemEnd(file, seg, pos) <= Len(file)
        /\ got' = [got EXCEPT !.cats[seg.cat].items = items]
        /\ seg' = Advance(seg, item) /\ pos' = ItemEnd(file, seg, pos)
        /\ task' = task /\ task = "read"
    BY <1>4 DEF read_item
  <2>2. item \in Item(Kind(seg)) /\ ItemEnd(file, seg, pos) \in Nat
    BY <1>1, ReadsItem
  <2>3. Kind(got.cats[seg.cat]) = Kind(seg) /\ got.cats[seg.cat] \in Category
    BY <1>1, <1>2, DictionaryFields DEF Kind
  <2> HIDE DEF item
  <2>4. items \in Seq(Item(Kind(got.cats[seg.cat])))
    <3> DEFINE S == Item(Kind(seg))
    <3>1. got.cats[seg.cat].items \in Seq(S)
      BY <2>3, CategoryFields
    <3> HIDE DEF S
    <3>2. items \in Seq(S)
      BY <2>2, <3>1 DEF S
    <3> QED
      BY <2>3, <3>2 DEF S
  <2> HIDE DEF items
  <2>5. /\ got' \in Dictionary /\ Len(got'.cats) = Len(got.cats)
        /\ got'.cats[seg.cat] = [got.cats[seg.cat] EXCEPT !.items = items]
    <3>1. got' = WithItems(got, seg.cat, items)
      BY <2>1 DEF WithItems
    <3>2. got \in Dictionary /\ seg.cat \in 1..Len(got.cats) /\ items \in Seq(Item(Kind(got.cats[seg.cat])))
      BY <1>1, <1>2, <2>4
    <3> QED
      BY <3>1, <3>2, DictionaryWith
  <2>6. got'.cats[seg.cat].type = seg.type
    BY <1>2, <2>3, <2>4, <2>5, CategoryWith
  <2>7. seg' \in Segment /\ seg'.cat = seg.cat /\ seg'.type = seg.type /\ seg'.open = seg.open
    BY <1>1, <2>1, <2>2, AdvanceFields
  <2>8. TypeOK'
    BY <1>1, <1>2, <2>1, <2>2, <2>5, <2>7 DEF TypeOK
  <2>9. Placed'
    BY <1>1, <1>2, <2>1, <2>5, <2>6, <2>7 DEF Placed
  <2> QED
    BY <2>8, <2>9
<1> QED
  BY <1>3, <1>4

\* read_padding keeps the types, and the program where it can be.
LEMMA Type_read_padding ==
  ASSUME TypeOK, Placed, read_padding
  PROVE  TypeOK' /\ Placed'
<1>1. /\ Len(file) \in Nat /\ pos \in Nat /\ seg \in Segment /\ seg.cat \in Nat /\ Odd(seg) \in 0..1
  BY LenOf, SegmentFields, WritesPadding DEF TypeOK
<1>2. /\ Len(got.cats) = seg.cat /\ UNCHANGED <<dict, file, complete, generation>>
  BY <1>1 DEF read_padding, Placed
<1>3. CASE Refused
  BY <1>2, <1>3 DEF Refused, TypeOK, Placed
<1>4. CASE ~Refused
  <2>1. /\ Has(file, pos, Odd(seg)) /\ seg' = Closed(seg.cat) /\ pos' = pos + Odd(seg)
        /\ UNCHANGED <<task, got>> /\ task = "read"
    BY <1>4 DEF read_padding
  <2>2. seg' \in Segment /\ pos' \in 0..Len(file')
    BY <1>1, <1>2, <2>1, OpenedClosed DEF Has
  <2>3. TypeOK'
    BY <1>2, <2>1, <2>2 DEF TypeOK
  <2>4. seg'.cat = seg.cat /\ ~seg'.open
    BY <2>1 DEF Closed
  <2>5. Placed'
    BY <1>2, <2>1, <2>4 DEF Placed
  <2> QED
    BY <2>3, <2>5
<1> QED
  BY <1>3, <1>4

\* Again keeps the types, and the program where it can be.
LEMMA Type_Again ==
  ASSUME TypeOK, Placed, Again
  PROVE  TypeOK' /\ Placed'
<1>1. Len(file) \in Nat
  BY LenOf DEF TypeOK
<1>2. generation' \in 0..Generations
  BY EepromAssumption DEF Again, TypeOK
<1>3. TypeOK'
  BY <1>1, <1>2 DEF Again, TypeOK
<1> QED
  BY <1>3 DEF Again, Placed

\* Every step keeps the types, and the program where it can be.
LEMMA TypeNext ==
  ASSUME TypeOK, Placed, [Next]_vars
  PROVE  TypeOK' /\ Placed'
<1>1. CASE UNCHANGED vars
  BY <1>1 DEF vars, TypeOK, Placed
<1>2. CASE Next
  BY <1>2, Type_m3rt_eeprom, Type_dict_to_eeprom, Type_write_category, Type_compute_word_size,
     Type_write_size, Type_write_item, Type_write_padding, Type_write_footer,
     Type_eeprom_to_dict, Type_read_category, Type_read_item, Type_read_padding, Type_Again DEF Next
<1> QED
  BY <1>1, <1>2

\* What the program has is a dictionary, what it writes are bytes, and it never
\* reads past the end of the file.
THEOREM Eeprom_TypeOK == Spec => []TypeOK
<1>1. Init => TypeOK /\ Placed
  BY TypeInit
<1>2. TypeOK /\ Placed /\ [Next]_vars => (TypeOK /\ Placed)'
  BY TypeNext
<1> QED
  BY <1>1, <1>2, PTL DEF Spec

(***************************************************************************)
(* What has been read of a file stays as it is while the file grows.       *)
(***************************************************************************)
\* The fields of a mark.
LEMMA MarkFields ==
  ASSUME NEW m \in Mark
  PROVE  m.seg \in Segment /\ m.pos \in Nat /\ m = [seg |-> m.seg, pos |-> m.pos]
<1> HIDE DEF Segment
<1> QED
  BY DEF Mark

\* A mark is made of a place and a number of bytes.
LEMMA MarkNew ==
  ASSUME NEW s \in Segment, NEW p \in Nat
  PROVE  /\ [seg |-> s, pos |-> p] \in Mark
         /\ [seg |-> s, pos |-> p].seg = s /\ [seg |-> s, pos |-> p].pos = p
BY DEF Mark

\* Where a step takes a reader is a mark again.
LEMMA ReachMark ==
  ASSUME NEW f \in ByteSeq, NEW m \in Mark
  PROVE  Reach(f, m) \in Mark
<1>1. m.seg \in Segment /\ m.pos \in Nat /\ m.seg.cat \in Nat /\ m.seg.open \in BOOLEAN
  BY MarkFields, SegmentFields
<1>2. CASE ~m.seg.open
  <2>1. /\ TypeAt(f, m.pos) \in Type /\ CountAt(f, m.pos) \in Nat /\ HeaderEnd(f, m.pos) \in Nat
        /\ m.seg.cat + 1 \in Nat
    BY <1>1, ReadsWords, ReadsHeader
  <2>2. Opened(m.seg.cat + 1, TypeAt(f, m.pos), CountAt(f, m.pos)) \in Segment
    BY <2>1, OpenedClosed
  <2> QED
    BY <1>2, <2>1, <2>2, MarkNew DEF Reach
<1>3. CASE m.seg.open /\ More(m.seg)
  <2>1. ItemAt(f, m.seg, m.pos) \in Item(Kind(m.seg)) /\ ItemEnd(f, m.seg, m.pos) \in Nat
    BY <1>1, ReadsItem
  <2>2. Advance(m.seg, ItemAt(f, m.seg, m.pos)) \in Segment
    BY <1>1, <2>1, AdvanceFields
  <2> QED
    BY <1>3, <2>1, <2>2, MarkNew DEF Reach
<1>4. CASE m.seg.open /\ ~More(m.seg)
  <2>1. Closed(m.seg.cat) \in Segment /\ m.pos + Odd(m.seg) \in Nat
    <3>1. Odd(m.seg) \in 0..1
      BY <1>1, WritesPadding
    <3> QED
      BY <1>1, <3>1, OpenedClosed
  <2> QED
    BY <1>4, <2>1, MarkNew DEF Reach
<1> QED
  BY <1>1, <1>2, <1>3, <1>4

\* Bytes before the end of a file are the same in a longer one.
LEMMA SameBytes ==
  ASSUME NEW f \in ByteSeq, NEW b \in ByteSeq, NEW p \in Nat, NEW n \in Nat, p + n <= Len(f)
  PROVE  Bytes(f \o b, p, n) = Bytes(f, p, n)
<1>1. ASSUME NEW i \in 1..n PROVE ByteAt(f \o b, p + i - 1) = ByteAt(f, p + i - 1)
  <2>1. p + i - 1 \in Nat /\ p + i - 1 < Len(f)
    BY LenOf
  <2> QED
    BY <2>1, Longer
<1> QED
  BY <1>1 DEF Bytes

\* So is the header of a category.
LEMMA SameHeader ==
  ASSUME NEW f \in ByteSeq, NEW b \in ByteSeq, NEW p \in Nat, NEW g, g = f \o b,
         HeaderEnd(f, p) <= Len(f)
  PROVE  /\ Word(g, p) = Word(f, p) /\ TypeAt(g, p) = TypeAt(f, p)
         /\ CountAt(g, p) = CountAt(f, p) /\ HeaderEnd(g, p) = HeaderEnd(f, p)
         /\ Len(g) >= Len(f)
<1>1. Len(f) \in Nat /\ Len(b) \in Nat
  BY LenOf
<1>2. Len(g) = Len(f) + Len(b) /\ \A q \in Nat : q < Len(f) => ByteAt(g, q) = ByteAt(f, q)
  BY Longer
<1>3. p + 4 <= Len(f)
  <2>1. HeaderEnd(f, p) \in Nat /\ HeaderEnd(f, p) >= p + 4
    BY ReadsHeader
  <2> QED
    BY <1>1, <2>1
<1>4. /\ ByteAt(g, p) = ByteAt(f, p) /\ ByteAt(g, p + 1) = ByteAt(f, p + 1)
      /\ ByteAt(g, p + 2) = ByteAt(f, p + 2) /\ ByteAt(g, p + 2 + 1) = ByteAt(f, p + 2 + 1)
  <2>1. /\ p \in Nat /\ p + 1 \in Nat /\ p + 2 \in Nat /\ p + 2 + 1 \in Nat
        /\ p < Len(f) /\ p + 1 < Len(f) /\ p + 2 < Len(f) /\ p + 2 + 1 < Len(f)
    BY <1>1, <1>3
  <2> QED
    BY <1>2, <2>1
<1>5. Word(g, p) = Word(f, p) /\ Word(g, p + 2) = Word(f, p + 2)
  BY <1>4 DEF Word
<1>6. TypeAt(g, p) = TypeAt(f, p)
  BY <1>5 DEF TypeAt
<1>7. HeaderEnd(g, p) = HeaderEnd(f, p)
  BY <1>6 DEF HeaderEnd
<1>8. id_to_category_spec(TypeAt(f, p)) = "Strings" => ByteAt(g, p + 4) = ByteAt(f, p + 4)
  <2>1. id_to_category_spec(TypeAt(f, p)) = "Strings" => p + 4 \in Nat /\ p + 4 < Len(f)
    BY <1>1 DEF HeaderEnd
  <2> QED
    BY <1>2, <2>1
<1>9. CountAt(g, p) = CountAt(f, p)
  BY <1>5, <1>6, <1>8 DEF CountAt
<1> QED
  BY <1>1, <1>2, <1>5, <1>6, <1>7, <1>9

\* So is the end of an item,
LEMMA SameItemEnd ==
  ASSUME NEW f \in ByteSeq, NEW b \in ByteSeq, NEW s, NEW p \in Nat, ItemEnd(f, s, p) <= Len(f)
  PROVE  ItemEnd(f \o b, s, p) = ItemEnd(f, s, p)
<1>1. Len(f) \in Nat
  BY LenOf
<1>2. p < Len(f)
  BY <1>1, ReadsItem
<1>3. ByteAt(f \o b, p) = ByteAt(f, p)
  BY <1>2, Longer
<1> QED
  BY <1>3 DEF ItemEnd

\* and the item.
LEMMA SameItem ==
  ASSUME NEW f \in ByteSeq, NEW b \in ByteSeq, NEW s, NEW p \in Nat, ItemEnd(f, s, p) <= Len(f)
  PROVE  ItemAt(f \o b, s, p) = ItemAt(f, s, p)
<1> DEFINE g == f \o b
<1> SUFFICES ItemAt(g, s, p) = ItemAt(f, s, p)
  OBVIOUS
<1>1. Len(f) \in Nat
  BY LenOf
<1>2. \A q \in Nat : q < Len(f) => ByteAt(g, q) = ByteAt(f, q)
  BY Longer
<1> HIDE DEF g
<1>3. \A q \in Nat, n \in Nat : q + n <= Len(f) => Bytes(g, q, n) = Bytes(f, q, n)
  BY SameBytes DEF g
<1>4. p < Len(f)
  BY <1>1, ReadsItem
<1>5. ByteAt(g, p) = ByteAt(f, p) /\ ByteAt(f, p) \in Nat
  BY <1>2, <1>4, ReadsBytes DEF Byte
<1>7. Kind(s) \in {"Strings", "GeneralInfo", "FMMU", "SyncM", "TAndRXPDO", "unknown"}
  BY KindCases DEF Kind
<1>8. CASE Kind(s) = "Strings"
  <2>1. p + 1 + ByteAt(f, p) <= Len(f) /\ p + 1 \in Nat
    BY <1>5, <1>8 DEF ItemEnd
  <2> QED
    BY <1>3, <1>5, <1>8, <2>1 DEF ItemAt
<1>9. CASE Kind(s) = "GeneralInfo"
  <2>1. p + 32 <= Len(f)
    BY <1>9 DEF ItemEnd
  <2>2. \A i \in 1..13 : ByteAt(g, IF i <= 4 THEN p + i - 1 ELSE p + i) = ByteAt(f, IF i <= 4 THEN p + i - 1 ELSE p + i)
    <3>1. \A i \in 1..13 : (IF i <= 4 THEN p + i - 1 ELSE p + i) \in Nat /\ (IF i <= 4 THEN p + i - 1 ELSE p + i) < Len(f)
      BY <1>1, <2>1
    <3> QED
      BY <1>2, <3>1
  <2>3. ByteAt(g, p + 4) = ByteAt(f, p + 4)
    <3>1. p + 4 \in Nat /\ p + 4 < Len(f)
      BY <1>1, <2>1
    <3> QED
      BY <1>2, <3>1
  <2>4. Bytes(g, p + 14, 18) = Bytes(f, p + 14, 18)
    <3>1. p + 14 \in Nat /\ p + 14 + 18 <= Len(f)
      BY <1>1, <2>1
    <3> QED
      BY <1>3, <3>1
  <2> DEFINE F(h) == [i \in 1..13 |-> ByteAt(h, IF i <= 4 THEN p + i - 1 ELSE p + i)]
  <2>5. F(g) = F(f)
    BY <2>2
  <2>6. \A h : ItemAt(h, s, p) = [fields |-> F(h), ports |-> val_to_n_bit_chunks(ByteAt(h, p + 4)), PAD_Byte |-> Bytes(h, p + 14, 18)]
    BY <1>9 DEF ItemAt
  <2> HIDE DEF F
  <2>7. ItemAt(g, s, p) = ItemAt(f, s, p)
    BY <2>3, <2>4, <2>5, <2>6
  <2> QED
    BY <2>7
<1>10. CASE Kind(s) = "FMMU"
  <2>1. p + 2 <= Len(f)
    BY <1>10 DEF ItemEnd
  <2> QED
    BY <1>3, <1>10, <2>1 DEF ItemAt
<1>11. CASE Kind(s) \in {"SyncM", "TAndRXPDO"}
  <2>1. p + 8 <= Len(f)
    BY <1>11 DEF ItemEnd
  <2>2. Bytes(g, p, 8) = Bytes(f, p, 8)
    BY <1>3, <2>1
  <2>3. \A h : ItemAt(h, s, p) = [pdo |-> Kind(s) = "TAndRXPDO" /\ s.due = 0, bytes |-> Bytes(h, p, 8)]
    BY <1>11 DEF ItemAt
  <2>4. ItemAt(g, s, p) = ItemAt(f, s, p)
    BY <2>2, <2>3, Zenon
  <2> QED
    BY <2>4
<1>12. CASE Kind(s) = "unknown"
  BY <1>5, <1>12 DEF ItemAt
<1> QED
  BY <1>7, <1>8, <1>9, <1>10, <1>11, <1>12

\* A step that a reader could take in a file takes it to the same mark in a
\* longer one.
LEMMA SameReach ==
  ASSUME NEW f \in ByteSeq, NEW b \in ByteSeq, NEW m \in Mark, NEW g, g = f \o b, Behind(f, m)
  PROVE  /\ Behind(g, m) /\ Reach(g, m) = Reach(f, m)
         /\ \A d : Copied(d, f, m) => Copied(d, g, m)
<1>1. m.seg \in Segment /\ m.pos \in Nat
  BY MarkFields
<1>2. Len(f) \in Nat /\ Len(b) \in Nat /\ Len(g) = Len(f) + Len(b)
  BY Longer, LenOf
<1>7. \A s : \A p \in Nat : ItemEnd(f, s, p) <= Len(f) => ItemAt(f \o b, s, p) = ItemAt(f, s, p)
  BY SameItem
<1>8. \A s : \A p \in Nat : ItemEnd(f, s, p) <= Len(f) => ItemEnd(f \o b, s, p) = ItemEnd(f, s, p)
  BY SameItemEnd
<1>3. Reach(f, m).pos \in Nat
  BY ReachMark, MarkFields
<1>4. CASE ~m.seg.open
  <2>1. Reach(f, m).pos = HeaderEnd(f, m.pos)
    BY <1>4 DEF Reach
  <2>2. HeaderEnd(f, m.pos) <= Len(f)
    BY <2>1 DEF Behind
  <2>3. /\ Word(g, m.pos) = Word(f, m.pos) /\ TypeAt(g, m.pos) = TypeAt(f, m.pos)
        /\ CountAt(g, m.pos) = CountAt(f, m.pos) /\ HeaderEnd(g, m.pos) = HeaderEnd(f, m.pos)
    BY <1>1, <2>2, SameHeader, ZenonT(30)
  <2>4. Reach(g, m) = Reach(f, m)
    BY <1>4, <2>3 DEF Reach
  <2>5. Behind(g, m)
    BY <1>2, <1>3, <2>3, <2>4 DEF Behind
  <2> QED
    BY <1>4, <2>3, <2>4, <2>5 DEF Copied
<1>5. CASE m.seg.open /\ More(m.seg)
  <2>1. Reach(f, m).pos = ItemEnd(f, m.seg, m.pos)
    BY <1>5 DEF Reach
  <2>2. ItemEnd(f, m.seg, m.pos) <= Len(f)
    BY <2>1 DEF Behind
  <2>3. ItemAt(g, m.seg, m.pos) = ItemAt(f, m.seg, m.pos) /\ ItemEnd(g, m.seg, m.pos) = ItemEnd(f, m.seg, m.pos)
    <3>1. ItemAt(f \o b, m.seg, m.pos) = ItemAt(f, m.seg, m.pos)
      BY <1>1, <1>7, <2>2
    <3>2. ItemEnd(f \o b, m.seg, m.pos) = ItemEnd(f, m.seg, m.pos)
      BY <1>1, <1>8, <2>2
    <3> QED
      BY <3>1, <3>2
  <2>4. Reach(g, m) = Reach(f, m)
    BY <1>5, <2>3 DEF Reach
  <2>5. Behind(g, m)
    BY <1>2, <1>3, <1>5, <2>4 DEF Behind
  <2> QED
    BY <1>5, <2>3, <2>4, <2>5 DEF Copied
<1>6. CASE m.seg.open /\ ~More(m.seg)
  <2>1. Reach(g, m) = Reach(f, m)
    BY <1>6 DEF Reach
  <2>2. Behind(g, m)
    BY <1>2, <1>3, <1>6, <2>1 DEF Behind
  <2> QED
    BY <1>6, <2>1, <2>2 DEF Copied
<1> QED
  BY <1>4, <1>5, <1>6

\* The trail of a file is one of the longer file, and goes on where it is read.
LEMMA Grows ==
  ASSUME NEW f \in ByteSeq, NEW b \in ByteSeq, NEW d, NEW M, NEW cur,
         Trail(d, f, M, cur)
  PROVE  Trail(d, f \o b, M, cur)
<1> DEFINE g == f \o b
<1>1. Len(f) \in Nat /\ Len(b) \in Nat /\ Len(g) = Len(f) + Len(b)
  BY Longer, LenOf
<1>2. Header <= Len(g)
  BY <1>1 DEF Trail, Header
<1>3. DoubleWordAt(g, SerialNumber) = DoubleWordAt(f, SerialNumber)
  <2>1. Len(f) >= 128 /\ SerialNumber = 28
    BY <1>1 DEF Trail, Header, SerialNumber
  <2>2. \A q \in Nat : q < Len(f) => ByteAt(g, q) = ByteAt(f, q)
    BY Longer
  <2> HIDE DEF g
  <2>3. ByteAt(g, 28) = ByteAt(f, 28) /\ ByteAt(g, 29) = ByteAt(f, 29) /\ ByteAt(g, 30) = ByteAt(f, 30) /\ ByteAt(g, 31) = ByteAt(f, 31)
    BY <1>1, <2>1, <2>2
  <2>4. Word(g, 28) = Word(f, 28) /\ Word(g, 30) = Word(f, 30)
    BY <2>3 DEF Word
  <2>5. SerialNumber + 2 = 30
    BY <2>1
  <2> QED
    BY <2>1, <2>4, <2>5 DEF DoubleWordAt
<1>4. ASSUME NEW m \in M, m # cur PROVE Behind(g, m) /\ Copied(d, g, m) /\ Reach(g, m) \in M
  <2>1. m \in Mark /\ Behind(f, m) /\ Copied(d, f, m) /\ Reach(f, m) \in M
    BY <1>4 DEF Trail
  <2> QED
    BY <2>1, SameReach, ZenonT(30)
<1> HIDE DEF g
<1>5. Trail(d, g, M, cur)
  BY <1>2, <1>3, <1>4 DEF Trail
<1> QED
  BY <1>5 DEF g

\* The trail that goes on to another mark.
Onward(d, f, M, m) == Trail(d, f, M \cup {m}, m)

\* The trail goes on by a step that a reader could take and that reads what the
\* dictionary has.
LEMMA Moves ==
  ASSUME NEW f \in ByteSeq, NEW d, NEW M, NEW cur, Trail(d, f, M, cur),
         Behind(f, cur), Copied(d, f, cur), NEW m, m = Reach(f, cur),
         Within(d, m.seg), OnTrack(d, m.seg)
  PROVE  Onward(d, f, M, m)
<1>1. cur \in Mark
  BY DEF Trail
<1>2. m \in Mark
  BY <1>1, ReachMark
<1> QED
  BY <1>2 DEF Onward, Trail

(***************************************************************************)
(* What is written around the items is read back too.                      *)
(***************************************************************************)
\* A word that is written with more behind it is read back,
LEMMA ReadsWordBack ==
  ASSUME NEW f \in ByteSeq, NEW w \in Word16, NEW b \in ByteSeq
  PROVE  /\ Word((f \o WordBytes(w)) \o b, Len(f)) = w
         /\ (f \o WordBytes(w)) \o b \in ByteSeq
         /\ Len((f \o WordBytes(w)) \o b) = Len(f) + 2 + Len(b)
<1> DEFINE u == WordBytes(w)
           g == (f \o u) \o b
<1>1. u \in ByteSeq /\ Len(u) = 2
  BY WritesWord
<1>2. u[1] + 256 * u[2] = w
  BY WritesWord
<1> HIDE DEF u
<1>3. /\ g \in ByteSeq /\ Len(g) = Len(f) + Len(u) + Len(b)
      /\ \A i \in 1..Len(u) : ByteAt(g, Len(f) + i - 1) = u[i]
  BY <1>1, Between, ZenonT(30)
<1> HIDE DEF g
<1>4. Len(f) \in Nat
  BY LenOf
<1>5. ByteAt(g, Len(f)) = u[1] /\ ByteAt(g, Len(f) + 1) = u[2]
  <2>1. 1 \in 1..Len(u) /\ 2 \in 1..Len(u) /\ Len(f) + 1 - 1 = Len(f) /\ Len(f) + 2 - 1 = Len(f) + 1
    BY <1>1, <1>4
  <2> QED
    BY <1>3, <2>1
<1>6. Word(g, Len(f)) = w
  BY <1>2, <1>5 DEF Word
<1>7. Len(g) = Len(f) + 2 + Len(b)
  BY <1>1, <1>3
<1> QED
  BY <1>3, <1>6, <1>7 DEF g, u

\* and so is one that is written last.
LEMMA ReadsWordAppended ==
  ASSUME NEW f \in ByteSeq, NEW w \in Word16
  PROVE  /\ Word(f \o WordBytes(w), Len(f)) = w
         /\ f \o WordBytes(w) \in ByteSeq
         /\ Len(f \o WordBytes(w)) = Len(f) + 2
<1> DEFINE e == <<>>
           g == f \o WordBytes(w)
<1>1. e \in ByteSeq /\ Len(e) = 0
  BY DEF ByteSeq
<1>2. g \in ByteSeq
  BY WritesWord, Joined
<1> HIDE DEF g
<1>3. g \o e = g
  BY <1>2 DEF ByteSeq
<1> HIDE DEF e
<1>4. Word(g \o e, Len(f)) = w /\ Len(g \o e) = Len(f) + 2 + Len(e)
  BY <1>1, ReadsWordBack DEF g
<1>5. Len(g) = Len(f) + 2
  BY <1>1, <1>3, <1>4, LenOf
<1> QED
  BY <1>2, <1>3, <1>4, <1>5 DEF g

\* g is f with a size and a number of strings behind the type it ends with.
HeaderWritten(f, size, count, g) == g = (f \o WordBytes(size)) \o count

\* Type, size and number of strings are read back from where they were written.
LEMMA ReadsHeaderBack ==
  ASSUME NEW f \in ByteSeq, NEW p \in Nat, p + 2 = Len(f), NEW t \in Type, Word(f, p) = t,
         NEW size \in Word16, NEW count \in ByteSeq,
         Len(count) = IF id_to_category_spec(t) = "Strings" THEN 1 ELSE 0,
         NEW g, HeaderWritten(f, size, count, g)
  PROVE  /\ g \in ByteSeq /\ Word(g, p) = t /\ TypeAt(g, p) = t /\ HeaderEnd(g, p) = Len(g)
         /\ Word(g, p + 2) = size /\ Len(g) = p + 4 + Len(count)
         /\ id_to_category_spec(t) = "Strings" => ByteAt(g, p + 4) = count[1]
<1> DEFINE fw == f \o WordBytes(size)
<1>1. /\ Word(fw \o count, Len(f)) = size /\ fw \o count \in ByteSeq
      /\ Len(fw \o count) = Len(f) + 2 + Len(count)
  BY ReadsWordBack
<1>2. fw \in ByteSeq /\ Len(fw) = Len(f) + 2
  BY ReadsWordAppended
<1>3. \A q \in Nat : q < Len(f) => ByteAt(fw, q) = ByteAt(f, q)
  BY WritesWord, Longer
<1> HIDE DEF fw
<1>4. g = fw \o count
  BY DEF fw, HeaderWritten
<1>5. /\ Len(g) = Len(fw) + Len(count)
      /\ \A q \in Nat : q < Len(fw) => ByteAt(g, q) = ByteAt(fw, q)
      /\ \A i \in 1..Len(count) : ByteAt(g, Len(fw) + i - 1) = count[i]
  <2>1. /\ Len(fw \o count) = Len(fw) + Len(count)
        /\ \A q \in Nat : q < Len(fw) => ByteAt(fw \o count, q) = ByteAt(fw, q)
        /\ \A i \in 1..Len(count) : ByteAt(fw \o count, Len(fw) + i - 1) = count[i]
    BY <1>2, Longer
  <2> QED
    BY <1>4, <2>1
<1>6. ByteAt(g, p) = ByteAt(f, p) /\ ByteAt(g, p + 1) = ByteAt(f, p + 1)
  <2>1. p + 1 \in Nat /\ p < Len(f) /\ p + 1 < Len(f) /\ p < Len(fw) /\ p + 1 < Len(fw)
    BY <1>2
  <2> QED
    BY <1>3, <1>5, <2>1
<1>7. Word(g, p) = t
  BY <1>6 DEF Word
<1>8. TypeAt(g, p) = t
  <2>1. \A x \in Type : x % 32768 = x
    BY DEF Type
  <2> QED
    BY <1>7, <2>1 DEF TypeAt
<1>9. Len(g) = p + 4 + Len(count)
  BY <1>1, <1>4, LenOf
<1>10. HeaderEnd(g, p) = Len(g)
  BY <1>8, <1>9 DEF HeaderEnd
<1>11. ASSUME id_to_category_spec(t) = "Strings" PROVE ByteAt(g, p + 4) = count[1]
  <2>1. 1 \in 1..Len(count) /\ Len(fw) + 1 - 1 = p + 4
    BY <1>2, <1>11
  <2> QED
    BY <1>5, <2>1
<1> QED
  BY <1>1, <1>4, <1>7, <1>8, <1>9, <1>10, <1>11

(***************************************************************************)
(* PDOs and their entries.                                                 *)
(***************************************************************************)
\* What a list of PDOs consists of.
LEMMA PDOItems ==
  ASSUME NEW items \in Seq(Item("TAndRXPDO"))
  PROVE  /\ Len(items) \in Nat /\ DOMAIN items = 1..Len(items)
         /\ \A i \in 1..Len(items) : nEntry(items[i]) \in Byte /\ nEntry(items[i]) \in Nat
                                     /\ items[i].pdo \in BOOLEAN
<1> DEFINE E == [1..8 -> Byte]
           S == [pdo : BOOLEAN, bytes : E]
<1>1. items \in Seq(S)
  BY PDOItem
<1> HIDE DEF S
<1>2. Len(items) \in Nat /\ DOMAIN items = 1..Len(items) /\ \A i \in 1..Len(items) : items[i] \in S
  BY <1>1
<1> HIDE DEF E
<1>3. \A x \in S : x.bytes \in E /\ x.pdo \in BOOLEAN
  BY DEF S
<1>4. \A y \in E : y[3] \in Byte
  BY DEF E
<1>5. \A y \in Byte : y \in Nat
  BY DEF Byte
<1>6. ASSUME NEW i \in 1..Len(items)
      PROVE  nEntry(items[i]) \in Byte /\ nEntry(items[i]) \in Nat /\ items[i].pdo \in BOOLEAN
  <2>1. items[i].bytes \in E /\ items[i].pdo \in BOOLEAN
    BY <1>2, <1>3
  <2> QED
    BY <1>4, <1>5, <2>1 DEF nEntry
<1> QED
  BY <1>2, <1>6

\* Before the first PDO no entry is due.
LEMMA BlockStart ==
  ASSUME NEW items \in Seq(Item("TAndRXPDO")), EntriesFollow(items)
  PROVE  Block(items, 0, 0)
<1>1. Len(items) \in Nat /\ DOMAIN items = 1..Len(items)
  BY PDOItems
<1>2. 0 < Len(items) => items[0 + 1].pdo
  <2>1. 0 < Len(items) => items # <<>>
    BY <1>1
  <2> QED
    BY <2>1 DEF EntriesFollow
<1> QED
  BY <1>1, <1>2 DEF Block

\* An item is a PDO where no entry is due, and its own entries are due behind
\* it.
LEMMA BlockNext ==
  ASSUME NEW items \in Seq(Item("TAndRXPDO")), EntriesFollow(items),
         NEW k \in Nat, NEW n \in Nat, Block(items, k, n), k < Len(items)
  PROVE  /\ items[k + 1].pdo <=> n = k
         /\ items[k + 1].pdo => Block(items, k + 1, k + 1 + nEntry(items[k + 1]))
         /\ ~items[k + 1].pdo => Block(items, k + 1, n)
<1>1. /\ Len(items) \in Nat /\ DOMAIN items = 1..Len(items)
      /\ k + 1 \in 1..Len(items) /\ nEntry(items[k + 1]) \in Nat
  <2>1. Len(items) \in Nat /\ DOMAIN items = 1..Len(items)
    BY PDOItems
  <2>2. k + 1 \in 1..Len(items)
    BY <2>1
  <2> QED
    BY <2>1, <2>2, PDOItems
<1>2. k <= n /\ n <= Len(items)
  BY DEF Block
<1>3. n = k => items[k + 1].pdo
  BY DEF Block
<1>4. n # k => ~items[k + 1].pdo
  <2>1. n # k => k < k + 1 /\ k + 1 <= n
    BY <1>2
  <2> QED
    BY <1>1, <2>1 DEF Block
<1>5. ASSUME items[k + 1].pdo
      PROVE  Block(items, k + 1, k + 1 + nEntry(items[k + 1]))
  <2> DEFINE e == k + 1 + nEntry(items[k + 1])
  <2>1. /\ e <= Len(items)
        /\ \A j \in 1..Len(items) : items[j].pdo => ~ j \in (k + 1 + 1)..e
        /\ e < Len(items) => items[e + 1].pdo
    BY <1>1, <1>5 DEF EntriesFollow
  <2>2. e \in Nat /\ k + 1 <= e
    BY <1>1
  <2> HIDE DEF e
  <2>3. \A j \in 1..Len(items) : k + 1 < j /\ j <= e => ~items[j].pdo
    BY <1>1, <2>1, <2>2
  <2>4. Block(items, k + 1, e)
    BY <2>1, <2>2, <2>3 DEF Block
  <2> QED
    BY <2>4 DEF e
<1>6. ASSUME ~items[k + 1].pdo
      PROVE  Block(items, k + 1, n)
  <2>1. k + 1 <= n
    BY <1>2, <1>3, <1>6
  <2>2. \A j \in 1..Len(items) : k + 1 < j /\ j <= n => ~items[j].pdo
    BY DEF Block
  <2> QED
    BY <2>1, <2>2 DEF Block
<1> QED
  BY <1>3, <1>4, <1>5, <1>6

(***************************************************************************)
(* Proper categories.                                                      *)
(***************************************************************************)
\* In a proper category the entries follow their PDOs.
LEMMA PDOsFollow ==
  ASSUME NEW c \in Category, Proper(c), Kind(c) = "TAndRXPDO"
  PROVE  c.items \in Seq(Item("TAndRXPDO")) /\ EntriesFollow(c.items)
BY CategoryFields DEF Proper

\* A category is opened on track.
LEMMA OpensOnTrack ==
  ASSUME NEW d \in Dictionary, NEW k \in 1..Len(d.cats), NEW n \in Nat,
         Proper(d.cats[k]) => n = Len(d.cats[k].items)
  PROVE  OnTrack(d, Opened(k, d.cats[k].type, n))
<1> DEFINE c == d.cats[k]
           s == Opened(k, c.type, n)
<1>1. c \in Category
  BY DictionaryFields
<1>2. s.cat = k /\ s.n = n /\ s.idx = 0 /\ s.due = 0 /\ s.type = c.type
  BY DEF Opened
<1>3. Kind(s) = Kind(c)
  BY <1>2 DEF Kind
<1> HIDE DEF s
<1>4. ASSUME Proper(c)
      PROVE  /\ s.n = Len(c.items) /\ s.idx <= s.n
             /\ IF Kind(s) = "TAndRXPDO" THEN Block(c.items, s.idx, s.idx + s.due) ELSE s.due = 0
  <2>1. s.n = Len(c.items) /\ s.idx <= s.n
    BY <1>2, <1>4
  <2>2. Kind(c) = "TAndRXPDO" => Block(c.items, 0, 0)
    BY <1>1, <1>4, PDOsFollow, BlockStart
  <2> QED
    BY <1>2, <1>3, <2>1, <2>2
<1>5. OnTrack(d, s)
  BY <1>2, <1>4 DEF OnTrack
<1> QED
  BY <1>5 DEF s

\* The writer finds an item where it asks for one, and one it can take.
LEMMA ProperItem ==
  ASSUME NEW d \in Dictionary, NEW s \in Segment, Within(d, s), s.open, OnTrack(d, s),
         More(s), Proper(d.cats[s.cat])
  PROVE  s.idx < Len(d.cats[s.cat].items) /\ ~ItemRaises(s, d.cats[s.cat].items[s.idx + 1])
<1> DEFINE c == d.cats[s.cat]
<1>1. /\ c \in Category /\ Kind(s) = Kind(c) /\ Len(c.items) \in Nat
      /\ s.idx \in Nat /\ s.due \in Nat /\ s.n \in Nat
      /\ (s.idx < Len(c.items) => s.idx + 1 \in 1..Len(c.items))
  <2>1. c \in Category /\ Kind(s) = Kind(c) /\ Len(c.items) \in Nat
    BY WithinKind
  <2>2. s.idx \in Nat /\ s.due \in Nat /\ s.n \in Nat
    BY SegmentFields
  <2> QED
    BY <2>1, <2>2, SMTT(30)
<1>2. /\ s.n = Len(c.items) /\ s.idx <= s.n
      /\ IF Kind(s) = "TAndRXPDO" THEN Block(c.items, s.idx, s.idx + s.due) ELSE s.due = 0
  BY DEF OnTrack
<1>3. s.idx < Len(c.items)
  <2>1. Kind(s) = "TAndRXPDO" => s.idx + s.due <= Len(c.items)
    BY <1>2 DEF Block
  <2> QED
    BY <1>1, <1>2, <2>1 DEF More
<1>4. DOMAIN c.items = 1..Len(c.items)
  <2> DEFINE S == Item(Kind(c))
  <2>1. c.items \in Seq(S)
    BY <1>1, CategoryFields
  <2> HIDE DEF S
  <2> QED
    BY <2>1
<1>5. Kind(s) = "Strings" => ~(Len(c.items[s.idx + 1]) > 255)
  <2>1. Kind(s) = "Strings" => c.items[s.idx + 1] \in ByteSeq /\ Len(c.items[s.idx + 1]) <= 255
    BY <1>1, <1>3, <1>4, WithinKind, StringsItem DEF Proper
  <2> QED
    BY <2>1, LenOf
<1>6. Kind(s) = "TAndRXPDO" => c.items[s.idx + 1].pdo = (s.due = 0)
  <2>1. SUFFICES ASSUME Kind(s) = "TAndRXPDO" PROVE c.items[s.idx + 1].pdo = (s.due = 0)
    OBVIOUS
  <2>2. c.items \in Seq(Item("TAndRXPDO")) /\ EntriesFollow(c.items)
    BY <1>1, <2>1, PDOsFollow
  <2>3. Block(c.items, s.idx, s.idx + s.due) /\ s.idx + s.due \in Nat
    BY <1>1, <1>2, <2>1
  <2>4. c.items[s.idx + 1].pdo <=> s.idx + s.due = s.idx
    BY <1>1, <1>3, <2>2, <2>3, BlockNext
  <2>5. c.items[s.idx + 1].pdo \in BOOLEAN
    BY <1>1, <1>3, <2>2, PDOItems
  <2>6. (s.idx + s.due = s.idx) <=> s.due = 0
    BY <1>1
  <2> QED
    BY <2>4, <2>5, <2>6
<1> QED
  BY <1>3, <1>5, <1>6 DEF ItemRaises

\* Behind an item the program is on track again.
LEMMA AdvanceOnTrack ==
  ASSUME NEW d \in Dictionary, NEW s \in Segment, Within(d, s), s.open, OnTrack(d, s),
         More(s), s.idx < Len(d.cats[s.cat].items)
  PROVE  OnTrack(d, Advance(s, d.cats[s.cat].items[s.idx + 1]))
<1> DEFINE c == d.cats[s.cat]
           item == c.items[s.idx + 1]
           t == Advance(s, item)
<1>1. /\ c \in Category /\ Kind(s) = Kind(c) /\ Len(c.items) \in Nat /\ item \in Item(Kind(s))
  BY WithinKind
<1>2. s.idx \in Nat /\ s.due \in Nat /\ s.n \in Nat
  BY SegmentFields
<1>3. /\ t.cat = s.cat /\ t.type = s.type /\ t.open = s.open /\ t.n = s.n
      /\ t.idx = s.idx + 1 /\ t.due = EntriesDue(s, item)
  BY <1>1, AdvanceFields
<1>4. Kind(t) = Kind(s)
  BY <1>3 DEF Kind
<1> HIDE DEF t, item, c
<1>5. ASSUME Proper(c)
      PROVE  /\ t.n = Len(c.items) /\ t.idx <= t.n
             /\ IF Kind(t) = "TAndRXPDO" THEN Block(c.items, t.idx, t.idx + t.due) ELSE t.due = 0
  <2>1. /\ s.n = Len(c.items) /\ s.idx <= s.n
        /\ IF Kind(s) = "TAndRXPDO" THEN Block(c.items, s.idx, s.idx + s.due) ELSE s.due = 0
    BY <1>5 DEF OnTrack, c
  <2>2. t.n = Len(c.items) /\ t.idx <= t.n
    BY <1>1, <1>2, <1>3, <2>1, SMTT(30) DEF c
  <2>3. CASE Kind(s) = "TAndRXPDO"
    <3>1. c.items \in Seq(Item("TAndRXPDO")) /\ EntriesFollow(c.items)
      BY <1>1, <1>5, <2>3, PDOsFollow
    <3>2. Block(c.items, s.idx, s.idx + s.due) /\ s.idx + s.due \in Nat /\ s.idx < Len(c.items)
      BY <1>2, <2>1, <2>3 DEF c
    <3>3. /\ item.pdo <=> s.idx + s.due = s.idx
          /\ item.pdo => Block(c.items, s.idx + 1, s.idx + 1 + nEntry(item))
          /\ ~item.pdo => Block(c.items, s.idx + 1, s.idx + s.due)
      BY <1>2, <3>1, <3>2, BlockNext DEF item
    <3>4. CASE s.due = 0
      <4>1. item.pdo /\ t.due = nEntry(item)
        BY <1>2, <1>3, <2>3, <3>3, <3>4 DEF EntriesDue
      <4> QED
        BY <1>3, <1>4, <2>2, <2>3, <3>3, <4>1
    <3>5. CASE s.due > 0
      <4>1. ~item.pdo /\ t.due = s.due - 1
        BY <1>2, <1>3, <2>3, <3>3, <3>5 DEF EntriesDue
      <4>2. s.idx + 1 + (s.due - 1) = s.idx + s.due
        BY <1>2
      <4> QED
        BY <1>3, <1>4, <2>2, <2>3, <3>3, <4>1, <4>2
    <3> QED
      BY <1>2, <3>4, <3>5
  <2>4. CASE Kind(s) # "TAndRXPDO"
    <3>1. t.due = 0
      BY <1>3, <2>4 DEF EntriesDue
    <3> QED
      BY <1>4, <2>2, <2>4, <3>1
  <2> QED
    BY <2>3, <2>4
<1>6. OnTrack(d, t)
  BY <1>3, <1>5 DEF OnTrack, c
<1> QED
  BY <1>6 DEF t, item, c

\* It has all the items when it asks for no more of them.
LEMMA ItemsDone ==
  ASSUME NEW d \in Dictionary, NEW s \in Segment, Within(d, s), s.open, OnTrack(d, s),
         ~More(s), Proper(d.cats[s.cat])
  PROVE  s.idx = Len(d.cats[s.cat].items)
<1>1. s.idx \in Nat /\ s.n \in Nat
  BY SegmentFields
<1>2. s.n = Len(d.cats[s.cat].items) /\ s.idx <= s.n
  BY DEF OnTrack
<1> QED
  BY <1>1, <1>2 DEF More

\* The words of up to 255 strings of up to 255 bytes are counted in a word.
LEMMA StringsFit ==
  ASSUME NEW b \in Nat, NEW i \in Nat, NEW n \in Nat, b <= 1 + 256 * i, i <= n, n <= 255
  PROVE  (b + 1) \div 2 \in Nat /\ (b + 1) \div 2 <= 65535
<1>1. b + 1 <= 65282
  OBVIOUS
<1>2. \A x \in Nat : x <= 65282 => x \div 2 \in Nat /\ x \div 2 <= 65535
  OBVIOUS
<1> QED
  BY <1>1, <1>2

\* The size of a proper category is a word, and the writer then asks for all of its items.
LEMMA ProperSize ==
  ASSUME TypeOK, Sized, task = "size", seg.cat < Len(dict.cats),
         NEW c, c = dict.cats[seg.cat + 1], Proper(c), ~Sizing(c)
  PROVE  /\ word_size(c, seg) \in Word16
         /\ Kind(c) = "Strings" => Len(c.items) <= 255
         /\ Kind(c) = "TAndRXPDO" => seg.n = Len(c.items)
<1>1. c \in Category /\ Len(c.items) \in Nat
  BY WritesCategory, CategoryFields
<1>2. seg.idx \in Nat /\ seg.n \in Nat /\ seg.byte_count \in Nat
  BY SegmentFields DEF TypeOK
<1>3. Kind(c) \in {"Strings", "GeneralInfo", "FMMU", "SyncM", "TAndRXPDO"}
  BY KindCases DEF Proper, Kind, Has_key
<1>4. \A w \in Nat : w <= 65535 => w \in Word16
  BY DEF Word16
<1>5. CASE Kind(c) = "Strings"
  <2>1. seg.idx <= Len(c.items) /\ seg.byte_count <= 1 + 256 * seg.idx /\ Len(c.items) <= 255
    BY <1>5 DEF Sized, Proper
  <2>2. (seg.byte_count + 1) \div 2 \in Nat /\ (seg.byte_count + 1) \div 2 <= 65535
    <3> DEFINE b == seg.byte_count
               i == seg.idx
               n == Len(c.items)
    <3>1. b \in Nat /\ i \in Nat /\ n \in Nat /\ b <= 1 + 256 * i /\ i <= n /\ n <= 255
      BY <1>1, <1>2, <2>1
    <3> HIDE DEF b, i, n
    <3>2. (b + 1) \div 2 \in Nat /\ (b + 1) \div 2 <= 65535
      BY <3>1, StringsFit
    <3> QED
      BY <3>2 DEF b
  <2> QED
    BY <1>4, <1>5, <2>1, <2>2 DEF word_size
<1>6. CASE Kind(c) \in {"GeneralInfo", "FMMU"}
  BY <1>4, <1>6 DEF word_size
<1>7. CASE Kind(c) = "SyncM"
  <2>1. 4 * Len(c.items) <= 65535 /\ c.pads = 1
    BY <1>7 DEF Proper, Aligned
  <2>2. word_size(c, seg) = 4 * Len(c.items) /\ 4 * Len(c.items) \in Nat
    BY <1>1, <1>7, <2>1 DEF word_size
  <2> QED
    BY <1>4, <1>7, <2>1, <2>2
<1>8. CASE Kind(c) = "TAndRXPDO"
  <2>1. seg.idx <= Len(c.items) /\ Block(c.items, seg.idx, seg.n) /\ 4 * Len(c.items) <= 65535
    BY <1>8 DEF Sized, Proper
  <2>2. seg.n = Len(c.items)
    BY <1>1, <1>2, <1>8, <2>1 DEF Sizing, Block
  <2>3. word_size(c, seg) = 4 * Len(c.items) /\ 4 * Len(c.items) \in Nat
    BY <1>1, <1>8, <2>2, SMTT(30) DEF word_size
  <2> QED
    BY <1>4, <1>8, <2>1, <2>2, <2>3
<1> QED
  BY <1>3, <1>5, <1>6, <1>7, <1>8

(***************************************************************************)
(* The size of a category.                                                 *)
(***************************************************************************)
\* The size of a proper category is computed as far as Sized says, by every
\* step.
LEMMA SizedNext ==
  ASSUME TypeOK, Placed, Sized, [Next]_vars
  PROVE  Sized'
<1> SUFFICES ASSUME (task = "size")', Proper(dict.cats[seg.cat + 1])'
             PROVE  LET c == (dict.cats[seg.cat + 1])'
                    IN /\ Kind(c) = "Strings" => seg'.idx <= Len(c.items) /\ seg'.byte_count <= 1 + 256 * seg'.idx
                       /\ Kind(c) = "TAndRXPDO" => seg'.idx <= Len(c.items) /\ Block(c.items, seg'.idx, seg'.n)
  BY DEF Sized
<1> DEFINE c == dict.cats[seg.cat + 1]
<1>1. write_category \/ compute_word_size \/ UNCHANGED vars
  <2>1. \A n, s : m3rt_eeprom(n, s) => task' # "size"
    BY DEF m3rt_eeprom
  <2>2. dict_to_eeprom \/ Again => task' # "size"
    BY DEF dict_to_eeprom, Again
  <2>3. write_size \/ write_item \/ write_padding \/ write_footer => task' # "size"
    <3>1. write_size => task' # "size"
      BY DEF write_size
    <3>2. write_item => task' # "size"
      BY DEF write_item
    <3>3. write_padding \/ write_footer => task' # "size"
      BY DEF write_padding, write_footer
    <3> QED
      BY <3>1, <3>2, <3>3
  <2>4. eeprom_to_dict \/ read_category \/ read_item \/ read_padding => task' # "size"
    BY DEF eeprom_to_dict, read_category, read_item, read_padding, Refused
  <2> QED
    BY <2>1, <2>2, <2>3, <2>4 DEF Next
<1>2. CASE UNCHANGED vars
  BY <1>2 DEF Sized, vars
<1>3. CASE write_category
  <2>1. dict' = dict /\ seg' = seg /\ ~seg.open /\ Within(dict, seg) /\ c \in Category /\ Len(c.items) \in Nat
    BY <1>3, WritesCategory, CategoryFields DEF write_category, Placed
  <2>2. seg' = Closed(seg.cat)
    BY <2>1 DEF Within
  <2>3. seg'.cat = seg.cat /\ seg'.idx = 0 /\ seg'.n = 0 /\ seg'.byte_count = 1
    BY <2>2 DEF Closed
  <2>4. Proper(c)
    BY <2>1, <2>3
  <2>5. Kind(c) = "TAndRXPDO" => Block(c.items, 0, 0)
    BY <2>1, <2>4, PDOsFollow, BlockStart
  <2> QED
    BY <2>1, <2>3, <2>5
<1>4. CASE compute_word_size
  <2> DEFINE item == c.items[seg.idx + 1]
  <2>1. c \in Category /\ Len(c.items) \in Nat /\ seg \in Segment
    BY <1>4, WritesCategory, CategoryFields DEF compute_word_size, Placed, TypeOK
  <2>2. seg.idx \in Nat /\ seg.byte_count \in Nat /\ seg.n \in Nat
    BY <2>1, SegmentFields
  <2>3. /\ dict' = dict /\ Sizing(c) /\ task = "size"
        /\ IF Kind(c) = "Strings"
             THEN seg' = [seg EXCEPT !.idx = @ + 1, !.byte_count = @ + 1 + Len(item)]
             ELSE seg' = [seg EXCEPT !.idx = @ + 1, !.n = @ + (IF item.pdo THEN 1 + nEntry(item) ELSE 0)]
    BY <1>4 DEF compute_word_size
  <2>4. seg.idx < Len(c.items) /\ seg.idx + 1 \in 1..Len(c.items)
    BY <2>1, <2>2, <2>3 DEF Sizing
  <2>5. seg'.cat = seg.cat /\ seg'.idx = seg.idx + 1
    BY <2>1, <2>3 DEF Segment
  <2>6. Proper(c) /\ c = (dict.cats[seg.cat + 1])'
    BY <2>3, <2>5
  <2>7. ASSUME Kind(c) = "Strings"
        PROVE  seg'.idx <= Len(c.items) /\ seg'.byte_count <= 1 + 256 * seg'.idx
    <3>1. seg'.byte_count = seg.byte_count + 1 + Len(item)
      BY <2>1, <2>3, <2>7 DEF Segment
    <3>2. Len(item) <= 255 /\ Len(item) \in Nat
      <4> DEFINE S == Item(Kind(c))
      <4>1. c.items \in Seq(S)
        BY <2>1, CategoryFields
      <4>2. DOMAIN c.items = 1..Len(c.items)
        <5> HIDE DEF S
        <5> QED
          BY <4>1
      <4>3. item \in ByteSeq
        BY <2>1, <2>4, <2>7, CategoryFields, StringsItem
      <4> QED
        BY <2>4, <2>6, <2>7, <4>2, <4>3, LenOf DEF Proper
    <3>3. seg.byte_count <= 1 + 256 * seg.idx
      BY <2>3, <2>6, <2>7 DEF Sized
    <3> HIDE DEF c, item
    <3> QED
      BY <2>1, <2>2, <2>4, <2>5, <3>1, <3>2, <3>3
  <2>8. ASSUME Kind(c) = "TAndRXPDO"
        PROVE  seg'.idx <= Len(c.items) /\ Block(c.items, seg'.idx, seg'.n)
    <3> DEFINE x == IF item.pdo THEN 1 + nEntry(item) ELSE 0
    <3>1. seg'.n = seg.n + x
      <4>1. seg' = [seg EXCEPT !.idx = seg.idx + 1, !.n = seg.n + x]
        BY <2>3, <2>8, Zenon
      <4> HIDE DEF x
      <4> QED
        BY <2>1, <4>1 DEF Segment
    <3>2. c.items \in Seq(Item("TAndRXPDO")) /\ EntriesFollow(c.items)
      BY <2>1, <2>6, <2>8, PDOsFollow
    <3>3. Block(c.items, seg.idx, seg.n)
      BY <2>3, <2>6, <2>8 DEF Sized
    <3>4. /\ item.pdo <=> seg.n = seg.idx
          /\ item.pdo => Block(c.items, seg.idx + 1, seg.idx + 1 + nEntry(item))
          /\ ~item.pdo => Block(c.items, seg.idx + 1, seg.n)
      BY <2>2, <2>4, <3>2, <3>3, BlockNext
    <3>5. nEntry(item) \in Nat
      BY <2>4, <3>2, PDOItems
    <3>6. CASE item.pdo
      <4>1. seg.n + x = seg.idx + 1 + nEntry(item)
        BY <2>2, <3>4, <3>5, <3>6
      <4> QED
        BY <2>1, <2>2, <2>4, <2>5, <3>1, <3>4, <3>6, <4>1
    <3>7. CASE ~item.pdo
      <4>1. seg.n + x = seg.n
        BY <2>2, <3>7
      <4> QED
        BY <2>1, <2>2, <2>4, <2>5, <3>1, <3>4, <3>7, <4>1
    <3> QED
      BY <3>6, <3>7
  <2> QED
    BY <2>6, <2>7, <2>8
<1> QED
  BY <1>1, <1>2, <1>3, <1>4

(***************************************************************************)
(* The trail, step by step of the writer.                                  *)
(***************************************************************************)
\* What is so of all categories is so of each.
LEMMA ProperAligned ==
  ASSUME NEW d \in Dictionary, NEW k \in 1..Len(d.cats)
  PROVE  /\ AllAligned(d) => Aligned(d.cats[k])
         /\ AllProper(d) => Proper(d.cats[k])
         /\ AllProper(d) => AllAligned(d)
BY DEF AllAligned, AllProper, Proper

\* A proper category is aligned and known, and not a vendor's.
LEMMA ProperFields == \A c : Proper(c) => Aligned(c) /\ c.vendor = 0 /\ Has_key(c.type)
BY DEF Proper

\* The mark between two categories.
LEMMA ClosedMark ==
  ASSUME NEW k \in Nat, NEW p \in Nat
  PROVE  LET m == [seg |-> Closed(k), pos |-> p]
         IN m \in Mark /\ ~m.seg.open /\ m.seg.cat = k /\ m.pos = p
<1>1. Closed(k) \in Segment
  BY OpenedClosed
<1>2. ~Closed(k).open /\ Closed(k).cat = k
  BY DEF Closed
<1> QED
  BY <1>1, <1>2, MarkNew

\* dict_to_eeprom begins a trail, or breaks off in the fields.
LEMMA Chain_dict_to_eeprom ==
  ASSUME TypeOK, dict_to_eeprom
  PROVE  Short' \/ \E M, cur : (Trail(dict, file, M, cur) /\ Front(cur) /\ Reading(M))'
<1>1. dict \in Dictionary /\ dict.serial \in Int /\ Len(dict.cats) \in Nat /\ dict' = dict
  BY DictionaryFields DEF TypeOK, dict_to_eeprom
<1>2. CASE ~DoubleWordFits(dict.serial)
  <2>1. file' = Zeros(28) /\ task' = "raised" /\ complete' = FALSE
    BY <1>2 DEF dict_to_eeprom, SerialNumber
  <2>2. Len(file') = 28 /\ Header = 128
    BY <2>1, WritesZeros DEF Header
  <2>3. Short'
    <3>1. Len(file') < Header
      BY <2>2
    <3>2. ~DoubleWordFits(dict'.serial)
      BY <1>1, <1>2
    <3> QED
      BY <2>1, <3>1, <3>2 DEF Short
  <2> QED
    BY <2>3
<1>3. CASE DoubleWordFits(dict.serial)
  <2>1. /\ task' = "write" /\ seg' = Closed(0) /\ complete' = FALSE
        /\ file' = Zeros(SerialNumber) \o DoubleWord(dict.serial) \o Zeros(Header - SerialNumber - 4)
    BY <1>3 DEF dict_to_eeprom
  <2>2. Len(file') = Header /\ DoubleWordAt(file', SerialNumber) = dict.serial
    BY <1>1, <1>3, <2>1, WritesFieldsBefore
  <2>3. First \in Mark /\ ~First.seg.open /\ First.seg = Closed(0) /\ First.seg.cat = 0
    <3>1. First = [seg |-> Closed(0), pos |-> 128]
      BY DEF First, Header
    <3>2. /\ [seg |-> Closed(0), pos |-> 128] \in Mark /\ [seg |-> Closed(0), pos |-> 128].seg = Closed(0)
          /\ ~Closed(0).open /\ Closed(0).cat = 0
      BY OpenedClosed, MarkNew DEF Closed
    <3> QED
      BY <3>1, <3>2
  <2>4. Within(dict, First.seg) /\ OnTrack(dict, First.seg)
    BY <1>1, <2>3 DEF Within, OnTrack
  <2>5. Header <= Len(file')
    BY <2>2 DEF Header
  <2>6. Trail(dict', file', {First}, First)
    BY <1>1, <2>2, <2>3, <2>4, <2>5 DEF Trail
  <2>7. First = [seg |-> seg', pos |-> Len(file')]
    BY <2>1, <2>2 DEF First
  <2>8. Front(First)'
    BY <2>1, <2>7 DEF Front
  <2>9. Reading({First})'
    BY <2>1 DEF Reading
  <2> QED
    BY <2>6, <2>8, <2>9
<1> QED
  BY <1>2, <1>3

\* write_category leaves the trail as it is; a category it refuses is where the
\* file stops.
LEMMA Chain_write_category ==
  ASSUME TypeOK, Placed, NEW M, NEW cur, Trail(dict, file, M, cur), Front(cur), write_category
  PROVE  (Trail(dict, file, M, cur) /\ Front(cur) /\ Reading(M))'
<1> DEFINE c == dict.cats[seg.cat + 1]
<1>1. /\ c \in Category /\ c.type \in Type /\ dict \in Dictionary /\ Len(dict.cats) \in Nat
      /\ seg.cat \in Nat /\ seg.cat + 1 \in 1..Len(dict.cats)
  <2>1. c \in Category /\ dict \in Dictionary /\ seg \in Segment /\ seg.cat < Len(dict.cats)
    BY WritesCategory DEF write_category, TypeOK
  <2>2. seg.cat \in Nat /\ Len(dict.cats) \in Nat
    BY <2>1, SegmentFields, DictionaryFields
  <2> QED
    BY <2>1, <2>2, CategoryFields
<1>2. /\ file \in ByteSeq /\ Len(file) \in Nat
      /\ cur = [seg |-> seg, pos |-> Len(file)] /\ ~complete /\ seg = Closed(seg.cat) /\ ~seg.open
  BY LenOf DEF TypeOK, Front, Placed, Within, write_category
<1>3. cur.seg = seg /\ cur.pos = Len(file)
  BY <1>2
<1>4. c.type \in Word16 /\ c.type # 65535
  BY <1>1 DEF Type, Word16
<1>5. dict' = dict /\ seg' = seg /\ complete' = complete
  BY DEF write_category
<1>6. CASE c.vendor = 1
  <2>1. task' = "raised" /\ file' = file
    BY <1>6 DEF write_category
  <2>2. ~AllProper(dict)
    BY <1>1, <1>6, ProperAligned, ProperFields
  <2>3. Stops(file, cur)
    BY <1>2, <1>3 DEF Stops, Has
  <2>4. Front(cur)'
    BY <1>2, <1>5, <2>1, <2>2, <2>3 DEF Front
  <2> QED
    BY <1>5, <2>1, <2>4 DEF Reading
<1>7. CASE c.vendor # 1
  <2>1. file' = file \o WordBytes(c.type) /\ task' = IF Has_key(c.type) THEN "size" ELSE "raised"
    BY <1>7 DEF write_category
  <2>2. /\ Word(file', Len(file)) = c.type /\ file' \in ByteSeq /\ Len(file') = Len(file) + 2
    BY <1>2, <1>4, <2>1, ReadsWordAppended
  <2>3. Trail(dict', file', M, cur)
    <3>1. WordBytes(c.type) \in ByteSeq
      BY <1>4, WritesWord
    <3> QED
      BY <1>2, <1>5, <2>1, <3>1, Grows
  <2>4. CASE Has_key(c.type)
    <3>1. task' = "size" /\ Len(file') - 2 = Len(file)
      BY <1>2, <2>1, <2>2, <2>4
    <3>2. Front(cur)'
      BY <1>2, <1>3, <1>5, <2>2, <3>1 DEF Front
    <3> QED
      BY <2>3, <3>1, <3>2 DEF Reading
  <2>5. CASE ~Has_key(c.type)
    <3>1. task' = "raised"
      BY <2>1, <2>5
    <3>2. ~AllProper(dict)
      BY <1>1, <2>5, ProperAligned, ProperFields
    <3>3. HeaderEnd(file', Len(file)) >= Len(file) + 4 /\ HeaderEnd(file', Len(file)) \in Nat
      BY <1>2, <2>2, ReadsHeader
    <3>4. Stops(file', cur)
      BY <1>2, <1>3, <1>4, <2>2, <3>3 DEF Stops
    <3>5. Front(cur)'
      BY <1>2, <1>5, <3>1, <3>2, <3>4 DEF Front
    <3> QED
      BY <2>3, <3>1, <3>5 DEF Reading
  <2> QED
    BY <2>4, <2>5
<1> QED
  BY <1>6, <1>7

\* compute_word_size leaves the trail as it is.
LEMMA Chain_compute_word_size ==
  ASSUME TypeOK, Placed, NEW M, NEW cur, Trail(dict, file, M, cur), Front(cur), compute_word_size
  PROVE  (Trail(dict, file, M, cur) /\ Front(cur) /\ Reading(M))'
<1>1. /\ task = "size" /\ task' = "size" /\ dict' = dict /\ file' = file /\ complete' = complete
  BY DEF compute_word_size
<1>2. seg'.cat = seg.cat
  <2>1. seg \in Segment
    BY DEF TypeOK
  <2>2. \/ seg' = [seg EXCEPT !.idx = seg'.idx, !.byte_count = seg'.byte_count]
        \/ seg' = [seg EXCEPT !.idx = seg'.idx, !.n = seg'.n]
    BY <2>1 DEF compute_word_size, Segment
  <2> QED
    BY <2>1, <2>2 DEF Segment
<1>3. Front(cur)'
  BY <1>1, <1>2 DEF Front
<1> QED
  BY <1>1, <1>3 DEF Reading

\* A type that a file ended with is read back from a longer one, and is not the
\* end of the categories.
LEMMA ReadsTypeBack ==
  ASSUME NEW f \in ByteSeq, NEW p \in Nat, p + 2 = Len(f), NEW t \in Type, Word(f, p) = t,
         NEW b \in ByteSeq
  PROVE  Word(f \o b, p) = t /\ TypeAt(f \o b, p) = t /\ t # 65535
<1>1. p + 1 \in Nat /\ p < Len(f) /\ p + 1 < Len(f)
  BY LenOf
<1>2. ByteAt(f \o b, p) = ByteAt(f, p) /\ ByteAt(f \o b, p + 1) = ByteAt(f, p + 1)
  BY <1>1, Longer
<1>3. Word(f \o b, p) = t
  BY <1>2 DEF Word
<1>4. \A x \in Type : x % 32768 = x /\ x # 65535
  BY DEF Type
<1> QED
  BY <1>3, <1>4 DEF TypeAt

\* The number of strings, where it is written.
CountBytes(c) == IF Kind(c) = "Strings" THEN <<Len(c.items)>> ELSE <<>>

\* f ends with the type of a category the writer has computed the size of.
TypeWritten(c, s, f, p) ==
  /\ c \in Category /\ Aligned(c) /\ Has_key(c.type) /\ s \in Segment
  /\ word_size(c, s) \in Word16 /\ (Kind(c) = "Strings" => Len(c.items) <= 255)
  /\ f \in ByteSeq /\ p \in Nat /\ p + 2 = Len(f) /\ Word(f, p) = c.type
\* What is read of g, which goes on behind the type that f ends with.
HeaderReads(c, s, f, p, g) ==
  /\ g \in ByteSeq /\ Word(g, p) = c.type /\ TypeAt(g, p) = c.type /\ HeaderEnd(g, p) = Len(g)
  /\ CountAt(g, p) = IF Kind(c) = "TAndRXPDO" THEN s.n ELSE Len(c.items)
  /\ \E b \in ByteSeq : g = f \o b

\* The number of items that the reader takes from the header is the writer's.
LEMMA ReadsCountBack ==
  ASSUME NEW c, NEW s, NEW f, NEW p, NEW g,
         TypeWritten(c, s, f, p), HeaderWritten(f, word_size(c, s), CountBytes(c), g)
  PROVE  HeaderReads(c, s, f, p, g)
<1>0. /\ c \in Category /\ Aligned(c) /\ Has_key(c.type) /\ s \in Segment
      /\ word_size(c, s) \in Word16 /\ (Kind(c) = "Strings" => Len(c.items) <= 255)
      /\ f \in ByteSeq /\ p \in Nat /\ p + 2 = Len(f) /\ Word(f, p) = c.type
  BY DEF TypeWritten
<1> DEFINE size == word_size(c, s)
           t == c.type
           count == CountBytes(c)
<1>1. t \in Type /\ Len(c.items) \in Nat /\ c.pads \in Nat /\ s.n \in Nat /\ Kind(c) = id_to_category_spec(t)
  BY <1>0, CategoryFields, SegmentFields DEF Kind
<1>2. count \in ByteSeq /\ Len(count) = IF id_to_category_spec(t) = "Strings" THEN 1 ELSE 0
  <2>1. CASE Kind(c) = "Strings"
    <3>1. Len(c.items) \in Byte
      BY <1>0, <1>1, <2>1 DEF Byte
    <3>2. count = <<Len(c.items)>>
      BY <2>1 DEF CountBytes
    <3> HIDE DEF count
    <3> QED
      BY <1>1, <2>1, <3>1, <3>2 DEF ByteSeq
  <2>2. CASE Kind(c) # "Strings"
    <3>1. count = <<>>
      BY <2>2 DEF CountBytes
    <3> HIDE DEF count
    <3> QED
      BY <1>1, <2>2, <3>1 DEF ByteSeq
  <2> QED
    BY <2>1, <2>2
<1>3. Kind(c) = "Strings" => count[1] = Len(c.items)
  BY DEF CountBytes
<1> HIDE DEF size, t, count
<1>4. size \in Word16
  BY <1>0 DEF size
<1>5. Word(f, p) = t /\ HeaderWritten(f, size, count, g)
  BY <1>0 DEF t, size, count
<1>6. /\ g \in ByteSeq /\ Word(g, p) = t /\ TypeAt(g, p) = t /\ HeaderEnd(g, p) = Len(g)
      /\ Word(g, p + 2) = size
      /\ id_to_category_spec(t) = "Strings" => ByteAt(g, p + 4) = count[1]
  BY <1>0, <1>1, <1>2, <1>4, <1>5, ReadsHeaderBack
<1>7. Kind(c) \in {"Strings", "GeneralInfo", "FMMU", "SyncM", "TAndRXPDO"}
  BY <1>0, KindCases DEF Kind, Has_key
<1>8. CountAt(g, p) = IF Kind(c) = "TAndRXPDO" THEN s.n ELSE Len(c.items)
  <2>1. CASE Kind(c) = "Strings"
    BY <1>1, <1>3, <1>6, <2>1 DEF CountAt
  <2>2. CASE Kind(c) \in {"GeneralInfo", "FMMU"}
    <3>1. Len(c.items) = 1
      BY <1>0, <2>2 DEF Aligned
    <3> QED
      BY <1>1, <1>6, <2>2, <3>1 DEF CountAt
  <2>3. CASE Kind(c) = "SyncM"
    <3>1. size = 4 * (Len(c.items) + c.pads - 1) /\ c.pads = 1
      BY <1>0, <2>3 DEF Aligned, word_size, size
    <3>2. size = 4 * Len(c.items)
      BY <1>1, <3>1
    <3>3. \A l \in Nat : (4 * l) \div 4 = l
      OBVIOUS
    <3>4. size \div 4 = Len(c.items)
      BY <1>1, <3>2, <3>3
    <3> QED
      BY <1>1, <1>6, <2>3, <3>4 DEF CountAt
  <2>4. CASE Kind(c) = "TAndRXPDO"
    <3>1. size = 4 * s.n
      BY <2>4 DEF word_size, size
    <3>3. \A l \in Nat : (4 * l + 3) \div 4 = l
      OBVIOUS
    <3>2. (size + 3) \div 4 = s.n
      BY <1>1, <3>1, <3>3
    <3> QED
      BY <1>1, <1>6, <2>4, <3>2 DEF CountAt
  <2> QED
    BY <1>7, <2>1, <2>2, <2>3, <2>4
<1>9. \E b \in ByteSeq : g = f \o b
  <2> DEFINE w == WordBytes(size)
  <2>1. w \in ByteSeq /\ g = (f \o w) \o count
    BY <1>4, <1>5, WritesWord DEF HeaderWritten
  <2> HIDE DEF w
  <2>2. g = f \o (w \o count) /\ w \o count \in ByteSeq
    <3>1. w \o count \in ByteSeq
      BY <1>2, <2>1, Joined
    <3>3. (f \o w) \o count = f \o (w \o count)
      BY <1>0, <1>2, <2>1, JoinedAssociative
    <3> QED
      BY <2>1, <3>1, <3>3
  <2> QED
    BY <2>2
<1> QED
  BY <1>0, <1>6, <1>8, <1>9 DEF t, HeaderReads

\* write_size takes the trail into the category, or stops the file.
LEMMA Chain_write_size ==
  ASSUME TypeOK, Placed, Sized, AllAligned(dict), write_size,
         NEW M, NEW cur, Trail(dict, file, M, cur), Front(cur)
  PROVE  \E N, front : (Trail(dict, file, N, front) /\ Front(front) /\ Reading(N))'
<1> DEFINE c == dict.cats[seg.cat + 1]
           size == word_size(c, seg)
           count == CountBytes(c)
           n == IF Kind(c) = "TAndRXPDO" THEN seg.n ELSE Len(c.items)
           p == Len(file) - 2
           k == seg.cat
<1>1. /\ c \in Category /\ c.type \in Type /\ dict \in Dictionary /\ seg \in Segment
      /\ k \in Nat /\ k + 1 \in 1..Len(dict.cats) /\ k < Len(dict.cats) /\ Len(dict.cats) \in Nat
      /\ Has_key(c.type) /\ seg.n \in Nat /\ Len(c.items) \in Nat
  <2>1. c \in Category /\ dict \in Dictionary /\ seg \in Segment /\ k < Len(dict.cats) /\ Has_key(c.type)
    BY WritesCategory DEF write_size, TypeOK, Placed
  <2>2. k \in Nat /\ Len(dict.cats) \in Nat /\ seg.n \in Nat
    BY <2>1, SegmentFields, DictionaryFields
  <2> QED
    BY <2>1, <2>2, CategoryFields
<1>2. /\ file \in ByteSeq /\ p \in Nat /\ p + 2 = Len(file)
      /\ cur = [seg |-> Closed(k), pos |-> p] /\ ~complete /\ Word(file, p) = c.type
  <2>1. file \in ByteSeq /\ Len(file) \in Nat
    BY LenOf DEF TypeOK
  <2>2. 128 <= Len(file)
    BY DEF Trail, Header
  <2>3. cur = [seg |-> Closed(k), pos |-> p] /\ ~complete /\ Word(file, cur.pos) = c.type
    BY DEF Front, write_size
  <2> QED
    BY <2>1, <2>2, <2>3
<1>3. ~cur.seg.open /\ cur.seg.cat = k /\ cur.pos = p /\ cur.seg = Closed(k)
  BY <1>2 DEF Closed
<1>4. Aligned(c)
  BY <1>1, ProperAligned
<1>5. dict' = dict /\ complete' = complete /\ ~Sizing(c) /\ task = "size"
  BY DEF write_size
<1>6. IF size \notin Word16
        THEN task' = "raised" /\ UNCHANGED <<file, seg>>
      ELSE IF Kind(c) = "Strings" /\ Len(c.items) > 255
        THEN task' = "raised" /\ file' = file \o WordBytes(size) /\ UNCHANGED seg
      ELSE /\ task' = "write" /\ file' = file \o WordBytes(size) \o count
           /\ seg' = Opened(k + 1, c.type, n)
  BY DEF write_size, CountBytes
<1>7. Proper(c) => size \in Word16 /\ (Kind(c) = "Strings" => Len(c.items) <= 255)
                   /\ (Kind(c) = "TAndRXPDO" => seg.n = Len(c.items))
  BY <1>1, <1>5, ProperSize
<1>8. \A x \in Type : x # 65535
  BY DEF Type
<1> HIDE DEF c, size, count, n, p, k
<1>9. CASE size \notin Word16
  <2>1. task' = "raised" /\ file' = file
    BY <1>6, <1>9
  <2>2. ~AllProper(dict)
    BY <1>1, <1>7, <1>9, ProperAligned DEF c, k
  <2>3. HeaderEnd(file, p) >= p + 4 /\ HeaderEnd(file, p) \in Nat
    BY <1>2, ReadsHeader
  <2>4. Stops(file, cur)
    BY <1>1, <1>2, <1>3, <1>8, <2>3 DEF Stops
  <2>5. Front(cur)'
    BY <1>2, <1>5, <2>1, <2>2, <2>4 DEF Front
  <2>6. Reading(M)'
    BY <2>1 DEF Reading
  <2> QED
    BY <1>5, <2>1, <2>5, <2>6
<1>10. CASE size \in Word16 /\ Kind(c) = "Strings" /\ Len(c.items) > 255
  <2>1. task' = "raised" /\ file' = file \o WordBytes(size)
    BY <1>6, <1>10
  <2>2. ~AllProper(dict)
    <3>1. ~(Len(c.items) <= 255)
      BY <1>1, <1>10
    <3> QED
      BY <1>1, <1>7, <1>10, <3>1, ProperAligned DEF c, k
  <2>3. WordBytes(size) \in ByteSeq
    BY <1>10, WritesWord
  <2>4. file' \in ByteSeq /\ Len(file') = p + 4
    BY <1>2, <1>10, <2>1, ReadsWordAppended
  <2>5. Word(file', p) = c.type /\ TypeAt(file', p) = c.type
    BY <1>1, <1>2, <2>1, <2>3, ReadsTypeBack
  <2>6. HeaderEnd(file', p) = p + 5
    BY <1>10, <2>5 DEF HeaderEnd, Kind
  <2>7. Stops(file', cur)
    BY <1>1, <1>2, <1>3, <1>8, <2>4, <2>5, <2>6 DEF Stops
  <2>8. Trail(dict', file', M, cur)
    BY <1>2, <1>5, <2>1, <2>3, Grows
  <2>9. Front(cur)'
    BY <1>2, <1>5, <2>1, <2>2, <2>7 DEF Front
  <2>10. Reading(M)'
    BY <2>1 DEF Reading
  <2> QED
    BY <2>8, <2>9, <2>10
<1>11. CASE size \in Word16 /\ ~(Kind(c) = "Strings" /\ Len(c.items) > 255)
  <2>1. task' = "write" /\ file' = (file \o WordBytes(size)) \o count /\ seg' = Opened(k + 1, c.type, n)
    BY <1>6, <1>11
  <2>2. Kind(c) = "Strings" => Len(c.items) <= 255
    BY <1>1, <1>11
  <2>3. /\ file' \in ByteSeq /\ Word(file', p) = c.type /\ TypeAt(file', p) = c.type
        /\ HeaderEnd(file', p) = Len(file') /\ CountAt(file', p) = n
        /\ \E b \in ByteSeq : file' = file \o b
    <3>1. HeaderWritten(file, word_size(c, seg), CountBytes(c), file')
      BY <2>1 DEF HeaderWritten, size, count
    <3>2. word_size(c, seg) \in Word16
      BY <1>11 DEF size
    <3>3. /\ file' \in ByteSeq /\ Word(file', p) = c.type /\ TypeAt(file', p) = c.type
          /\ HeaderEnd(file', p) = Len(file')
          /\ CountAt(file', p) = IF Kind(c) = "TAndRXPDO" THEN seg.n ELSE Len(c.items)
          /\ \E b \in ByteSeq : file' = file \o b
      <4>1. TypeWritten(c, seg, file, p)
        BY <1>1, <1>2, <1>4, <2>2, <3>2 DEF TypeWritten
      <4>2. HeaderReads(c, seg, file, p, file')
        BY <3>1, <4>1, ReadsCountBack
      <4> QED
        BY <4>2 DEF HeaderReads
    <3> QED
      BY <3>3 DEF n
  <2>4. Trail(dict, file', M, cur)
    BY <1>2, <2>3, Grows
  <2> PICK front : front = [seg |-> seg', pos |-> Len(file')]
    OBVIOUS
  <2>5. Reach(file', cur) = front
    BY <1>3, <2>1, <2>3 DEF Reach
  <2>6. front.seg = seg' /\ front.pos = Len(file')
    OBVIOUS
  <2>7. Len(file') \in Nat
    BY <2>3, LenOf
  <2>8. Behind(file', cur)
    BY <1>1, <1>3, <1>8, <2>3, <2>5, <2>6, <2>7 DEF Behind
  <2>9. Copied(dict, file', cur)
    BY <1>1, <1>3, <2>3 DEF Copied, c, k
  <2>10. Within(dict, seg')
    BY <1>1, <2>1 DEF Within, Opened, c, k
  <2>11. OnTrack(dict, seg')
    <3>1. n \in Nat /\ (Proper(c) => n = Len(c.items))
      BY <1>1, <1>7 DEF n
    <3> QED
      BY <1>1, <2>1, <3>1, OpensOnTrack DEF c, k
  <2>12. Trail(dict, file', M \cup {front}, front)
    <3>1. Within(dict, front.seg) /\ OnTrack(dict, front.seg)
      BY <2>6, <2>10, <2>11
    <3>2. Onward(dict, file', M, front)
      BY <2>3, <2>4, <2>5, <2>8, <2>9, <3>1, Moves
    <3> QED
      BY <3>2 DEF Onward
  <2>13. Front(front)'
    BY <1>2, <1>5, <2>1 DEF Front
  <2>14. Reading(M \cup {front})'
    BY <2>1 DEF Reading
  <2>15. Trail(dict', file', M \cup {front}, front)
    BY <1>5, <2>12
  <2> QED
    BY <2>13, <2>14, <2>15
<1> QED
  BY <1>9, <1>10, <1>11

\* g is f with an item behind it.
ItemWritten(f, s, item, g) == g = f \o ItemBytes(Kind(s), item)

\* An item that the writer appends is read back where it is.
LEMMA ReadsItemBack ==
  ASSUME NEW f \in ByteSeq, NEW s \in Segment, NEW item \in Item(Kind(s)), Kind(s) # "unknown",
         ~ItemRaises(s, item), Kind(s) = "GeneralInfo" => Len(item.PAD_Byte) = 18,
         NEW g, ItemWritten(f, s, item, g)
  PROVE  ItemAt(g, s, Len(f)) = item /\ ItemEnd(g, s, Len(f)) = Len(g)
<1>1. s.due \in Byte
  BY SegmentFields
<1>2. \A h : h = f \o ItemBytes(Kind(s), item) => ItemAt(h, s, Len(f)) = item /\ ItemEnd(h, s, Len(f)) = Len(h)
  BY <1>1, ReadsBack
<1> QED
  BY <1>2 DEF ItemWritten

\* write_item takes the trail one item on, or stops the file.
LEMMA Chain_write_item ==
  ASSUME TypeOK, Placed, AllAligned(dict), write_item,
         NEW M, NEW cur, Trail(dict, file, M, cur), Front(cur)
  PROVE  \E N, front : (Trail(dict, file, N, front) /\ Front(front) /\ Reading(N))'
<1> DEFINE items == dict.cats[seg.cat].items
           item == items[seg.idx + 1]
           b == ItemBytes(Kind(seg), item)
<1>1. dict \in Dictionary /\ seg \in Segment /\ Within(dict, seg) /\ seg.open /\ More(seg)
  BY SMTT(30) DEF TypeOK, Placed, write_item
<1>2. /\ Kind(seg) \in {"Strings", "GeneralInfo", "FMMU", "SyncM", "TAndRXPDO"}
      /\ Len(items) \in Nat /\ seg.idx \in Nat /\ seg.cat \in 1..Len(dict.cats)
      /\ dict.cats[seg.cat] \in Category /\ Kind(seg) = Kind(dict.cats[seg.cat])
      /\ seg.idx < Len(items) => item \in Item(Kind(seg))
  BY <1>1, WithinKind, SegmentFields, SMTT(30)
<1>3. /\ file \in ByteSeq /\ Len(file) \in Nat
      /\ cur = [seg |-> seg, pos |-> Len(file)] /\ ~complete /\ task = "write"
  BY LenOf DEF TypeOK, Front, write_item
<1>4. cur.seg = seg /\ cur.pos = Len(file) /\ cur \in M /\ OnTrack(dict, seg)
  BY <1>3 DEF Trail
<1>5. Aligned(dict.cats[seg.cat])
  BY <1>1, <1>2, ProperAligned
<1>6. AllProper(dict) => seg.idx < Len(items) /\ ~ItemRaises(seg, item)
  <2>1. AllProper(dict) => Proper(dict.cats[seg.cat])
    BY <1>1, <1>2, ProperAligned
  <2> QED
    BY <1>1, <1>4, <2>1, ProperItem
<1>7. seg.idx < Len(items) => (Kind(seg) = "GeneralInfo" => Len(item.PAD_Byte) = 18)
  <2>1. SUFFICES ASSUME seg.idx < Len(items), Kind(seg) = "GeneralInfo" PROVE Len(item.PAD_Byte) = 18
    OBVIOUS
  <2>2. seg.idx + 1 \in DOMAIN items
    <3> DEFINE S == Item(Kind(dict.cats[seg.cat]))
    <3>1. items \in Seq(S)
      BY <1>2, CategoryFields, SMTT(30)
    <3> HIDE DEF S, items
    <3> QED
      BY <1>2, <2>1, <3>1
  <2> QED
    BY <1>2, <1>5, <2>1, <2>2 DEF Aligned
<1> HIDE DEF items
<1>8. /\ dict' = dict /\ complete' = complete
      /\ IF seg.idx >= Len(items) \/ ItemRaises(seg, item)
           THEN task' = "raised" /\ UNCHANGED <<file, seg>>
           ELSE file' = file \o b /\ seg' = Advance(seg, item) /\ UNCHANGED task
  BY DEF write_item, items
<1> HIDE DEF item, b
<1>9. CASE seg.idx >= Len(items) \/ ItemRaises(seg, item)
  <2>1. task' = "raised" /\ file' = file
    BY <1>8, <1>9
  <2>2. ~AllProper(dict)
    BY <1>2, <1>6, <1>9
  <2>3. ItemEnd(file, seg, Len(file)) \in Nat /\ ItemEnd(file, seg, Len(file)) > Len(file)
    BY <1>3, ReadsItem
  <2>4. Stops(file, cur)
    BY <1>1, <1>4, <2>3 DEF Stops
  <2>5. Front(cur)'
    BY <1>3, <1>8, <2>1, <2>2, <2>4 DEF Front
  <2>6. Reading(M)'
    BY <2>1 DEF Reading
  <2> QED
    BY <1>8, <2>1, <2>5, <2>6
<1>10. CASE ~(seg.idx >= Len(items) \/ ItemRaises(seg, item))
  <2>1. task' = "write" /\ file' = file \o b /\ seg' = Advance(seg, item)
    BY <1>3, <1>8, <1>10
  <2>2. seg.idx < Len(items) /\ item \in Item(Kind(seg)) /\ ~ItemRaises(seg, item)
    BY <1>2, <1>10 DEF item
  <2>3. b \in ByteSeq
    <3>1. Kind(seg) = "Strings" => Len(item) <= 255
      <4>1. Kind(seg) = "Strings" => item \in ByteSeq /\ ~(Len(item) > 255)
        BY <2>2, StringsItem DEF ItemRaises
      <4> QED
        BY <4>1, LenOf
    <3> QED
      BY <1>2, <2>2, <3>1, WritesItem DEF b
  <2>4. file' \in ByteSeq /\ Len(file') \in Nat
    BY <1>3, <2>1, <2>3, Longer, LenOf
  <2>5. ItemAt(file', seg, Len(file)) = item /\ ItemEnd(file', seg, Len(file)) = Len(file')
    <3>1. ItemWritten(file, seg, item, file')
      BY <2>1 DEF ItemWritten, b
    <3>2. Kind(seg) # "unknown"
      BY <1>2
    <3> QED
      BY <1>1, <1>3, <1>7, <2>2, <3>1, <3>2, ReadsItemBack DEF item
  <2>6. Trail(dict, file', M, cur)
    BY <1>3, <2>1, <2>3, Grows
  <2> PICK front : front = [seg |-> seg', pos |-> Len(file')]
    OBVIOUS
  <2>7. Reach(file', cur) = front
    BY <1>1, <1>4, <2>1, <2>5 DEF Reach
  <2>8. front.seg = seg' /\ front.pos = Len(file')
    OBVIOUS
  <2>9. Behind(file', cur)
    BY <1>1, <1>4, <2>4, <2>7, <2>8 DEF Behind
  <2>10. Copied(dict, file', cur)
    BY <1>1, <1>4, <2>2, <2>5 DEF Copied, item, items
  <2>11. /\ seg'.cat = seg.cat /\ seg'.type = seg.type /\ seg'.open = seg.open
    BY <1>1, <2>1, <2>2, AdvanceFields
  <2>12. Within(dict, seg')
    BY <1>1, <2>11 DEF Within
  <2>13. OnTrack(dict, seg')
    BY <1>1, <1>4, <2>1, <2>2, AdvanceOnTrack, SMTT(30) DEF item, items
  <2>14. Onward(dict, file', M, front)
    BY <2>4, <2>6, <2>7, <2>8, <2>9, <2>10, <2>12, <2>13, Moves
  <2>15. Trail(dict', file', M \cup {front}, front)
    BY <1>8, <2>14 DEF Onward
  <2>16. Front(front)'
    BY <1>3, <1>8, <2>1 DEF Front
  <2>17. Reading(M \cup {front})'
    BY <2>1 DEF Reading
  <2> QED
    BY <2>15, <2>16, <2>17
<1> QED
  BY <1>9, <1>10

\* write_padding takes the trail out of the category.
LEMMA Chain_write_padding ==
  ASSUME TypeOK, Placed, write_padding,
         NEW M, NEW cur, Trail(dict, file, M, cur), Front(cur)
  PROVE  \E N, front : (Trail(dict, file, N, front) /\ Front(front) /\ Reading(N))'
<1>1. dict \in Dictionary /\ seg \in Segment /\ Within(dict, seg) /\ seg.open /\ ~More(seg) /\ seg.cat \in Nat
  BY SegmentFields DEF TypeOK, Placed, write_padding
<1>2. /\ file \in ByteSeq /\ Len(file) \in Nat
      /\ cur = [seg |-> seg, pos |-> Len(file)] /\ ~complete /\ task = "write"
  BY LenOf DEF TypeOK, Front, write_padding
<1>3. cur.seg = seg /\ cur.pos = Len(file) /\ cur \in M
  BY <1>2 DEF Trail
<1>4. /\ dict' = dict /\ complete' = complete /\ task' = "write"
      /\ file' = file \o Padding(seg) /\ seg' = Closed(seg.cat)
  BY <1>2 DEF write_padding
<1>5. /\ Padding(seg) \in ByteSeq /\ file' \in ByteSeq /\ Len(file') \in Nat
      /\ Len(file') = Len(file) + Odd(seg)
  <2>1. Padding(seg) \in ByteSeq /\ Len(Padding(seg)) = Odd(seg)
    BY <1>1, WritesPadding
  <2> QED
    BY <1>2, <1>4, <2>1, Longer, LenOf
<1>6. Trail(dict, file', M, cur)
  BY <1>2, <1>4, <1>5, Grows
<1> PICK front : front = [seg |-> seg', pos |-> Len(file')]
  OBVIOUS
<1>7. front.seg = seg' /\ front.pos = Len(file')
  OBVIOUS
<1>8. Reach(file', cur) = front
  BY <1>1, <1>3, <1>4, <1>5 DEF Reach
<1>9. Behind(file', cur)
  BY <1>1, <1>3, <1>5, <1>7, <1>8 DEF Behind
<1>10. Copied(dict, file', cur)
  BY <1>1, <1>3 DEF Copied
<1>11. Within(dict, seg') /\ OnTrack(dict, seg')
  BY <1>1, <1>4 DEF Within, OnTrack, Closed
<1>12. Onward(dict, file', M, front)
  BY <1>5, <1>6, <1>7, <1>8, <1>9, <1>10, <1>11, Moves
<1>13. Trail(dict', file', M \cup {front}, front)
  BY <1>4, <1>12 DEF Onward
<1>14. Front(front)'
  BY <1>2, <1>4 DEF Front
<1>15. Reading(M \cup {front})'
  BY <1>4 DEF Reading
<1> QED
  BY <1>13, <1>14, <1>15

\* write_footer ends the file.
LEMMA Chain_write_footer ==
  ASSUME TypeOK, Placed, write_footer,
         NEW M, NEW cur, Trail(dict, file, M, cur), Front(cur)
  PROVE  (Trail(dict, file, M, cur) /\ Front(cur) /\ Reading(M))'
<1>1. /\ file \in ByteSeq /\ Len(file) \in Nat
      /\ cur = [seg |-> seg, pos |-> Len(file)] /\ task = "write"
  BY LenOf DEF TypeOK, Front, write_footer
<1>2. /\ dict' = dict /\ complete' = TRUE /\ task' = "written"
      /\ file' = file \o WordBytes(65535) /\ ~seg.open /\ seg.cat = Len(dict.cats)
  BY DEF write_footer
<1>3. 65535 \in Word16
  BY DEF Word16
<1>4. /\ Word(file', Len(file)) = 65535 /\ file' \in ByteSeq /\ Len(file') = Len(file) + 2
  BY <1>1, <1>2, <1>3, ReadsWordAppended
<1>5. Trail(dict', file', M, cur)
  <2>1. WordBytes(65535) \in ByteSeq
    BY <1>3, WritesWord
  <2> QED
    BY <1>1, <1>2, <2>1, Grows
<1>6. Ends(dict', file', cur)
  <2>1. Has(file', Len(file), 2)
    BY <1>1, <1>4 DEF Has
  <2>2. cur.seg = seg /\ cur.pos = Len(file)
    BY <1>1
  <2> QED
    BY <1>2, <1>4, <2>1, <2>2 DEF Ends
<1>7. Front(cur)'
  BY <1>2, <1>6 DEF Front
<1> QED
  BY <1>2, <1>5, <1>7 DEF Reading

(***************************************************************************)
(* The trail, step by step of the reader.                                  *)
(***************************************************************************)
\* A reader is at a mark of the trail: at the front, or at one behind it that
\* leads on.
LEMMA ReadingMark ==
  ASSUME TypeOK, task = "read", NEW M, NEW cur, Trail(dict, file, M, cur), Front(cur), Reading(M)
  PROVE  \E m \in Mark :
           /\ m.seg = seg /\ m.pos = pos
           /\ Within(dict, seg) /\ OnTrack(dict, seg)
           /\ IF m # cur THEN Behind(file, m) /\ Copied(dict, file, m) /\ Reach(file, m) \in M
              ELSE IF complete THEN Ends(dict, file, m) ELSE Stops(file, m)
<1> PICK m : m = [seg |-> seg, pos |-> pos]
  OBVIOUS
<1>1. m.seg = seg /\ m.pos = pos
  OBVIOUS
<1>2. m \in M /\ m \in Mark
  BY DEF Reading, Trail
<1>3. Within(dict, m.seg) /\ OnTrack(dict, m.seg)
  BY <1>2 DEF Trail
<1>4. m # cur => Behind(file, m) /\ Copied(dict, file, m) /\ Reach(file, m) \in M
  BY <1>2 DEF Trail
<1>5. IF complete THEN Ends(dict, file, cur) ELSE Stops(file, cur)
  BY DEF Front
<1>6. m = cur => IF complete THEN Ends(dict, file, m) ELSE Stops(file, m)
  BY <1>5
<1>7. Within(dict, seg) /\ OnTrack(dict, seg)
  BY <1>1, <1>3
<1> QED
  BY <1>1, <1>2, <1>4, <1>6, <1>7

\* The front is where it is while the file is read.
LEMMA FrontStays ==
  ASSUME NEW M, NEW cur, Trail(dict, file, M, cur), Front(cur), UNCHANGED <<dict, file, complete>>,
         task \in {"written", "raised", "read"}, task' \in {"read", "refused", "done"},
         task' = "done" => complete, task' = "refused" => ~complete
  PROVE  (Trail(dict, file, M, cur) /\ Front(cur))'
<1>1. IF complete THEN Ends(dict, file, cur) ELSE Stops(file, cur) /\ ~AllProper(dict)
  BY DEF Front
<1>2. Front(cur)'
  BY <1>1 DEF Front
<1> QED
  BY <1>2

\* eeprom_to_dict goes to the first mark.
LEMMA Chain_eeprom_to_dict ==
  ASSUME TypeOK, Placed, eeprom_to_dict,
         NEW M, NEW cur, Trail(dict, file, M, cur), Front(cur)
  PROVE  (Trail(dict, file, M, cur) /\ Front(cur) /\ Reading(M))'
<1>1. Has(file, 0, Header)
  <2>1. Header <= Len(file) /\ Header = 128
    BY DEF Trail, Header
  <2> QED
    BY <2>1 DEF Has
<1>2. /\ task \in {"written", "raised"} /\ task' = "read" /\ seg' = Closed(0) /\ pos' = Header
      /\ got' = [serial |-> DoubleWordAt(file, SerialNumber), cats |-> <<>>]
      /\ UNCHANGED <<dict, file, complete>>
  BY <1>1 DEF eeprom_to_dict, Refused
<1>3. (Trail(dict, file, M, cur) /\ Front(cur))'
  BY <1>2, FrontStays
<1>4. [seg |-> seg', pos |-> pos'] \in M
  BY <1>2 DEF Trail, First
<1>5. got'.serial = dict'.serial /\ Len(got'.cats) = 0
  BY <1>2 DEF Trail
<1>6. ReadSoFar(seg)'
  BY <1>5 DEF ReadSoFar
<1>7. Reading(M)'
  BY <1>2, <1>4, <1>6 DEF Reading
<1> QED
  BY <1>3, <1>7

\* Nothing of the trail is disturbed where the reader gives up.
LEMMA ReaderRefused ==
  ASSUME NEW M, NEW cur, Trail(dict, file, M, cur), Front(cur), UNCHANGED <<dict, file, complete>>,
         task = "read", Refused, ~complete
  PROVE  (Trail(dict, file, M, cur) /\ Front(cur) /\ Reading(M))'
<1>1. task' = "refused"
  BY DEF Refused
<1>2. (Trail(dict, file, M, cur) /\ Front(cur))'
  BY <1>1, FrontStays
<1>3. Reading(M)'
  BY <1>1 DEF Reading
<1> QED
  BY <1>2, <1>3

\* Where the last category has been read the dictionary is whole.
LEMMA ReadWhole ==
  ASSUME dict \in Dictionary, got \in Dictionary, NEW s, ~s.open, ReadSoFar(s),
         Len(got.cats) = Len(dict.cats)
  PROVE  got = [dict EXCEPT !.cats = [i \in DOMAIN @ |-> Unpadded(@[i])]]
<1> DEFINE cats == [i \in DOMAIN dict.cats |-> Unpadded(dict.cats[i])]
<1>1. /\ got.cats \in Seq(Category) /\ DOMAIN got.cats = 1..Len(got.cats)
      /\ DOMAIN dict.cats = 1..Len(dict.cats)
  BY DictionaryFields
<1>2. \A i \in 1..Len(got.cats) : got.cats[i] = Unpadded(dict.cats[i])
  BY DEF ReadSoFar
<1>3. got.cats = [i \in DOMAIN got.cats |-> got.cats[i]]
  BY <1>1
<1>4. got.cats = cats
  BY <1>1, <1>2, <1>3
<1>5. [dict EXCEPT !.cats = [i \in DOMAIN @ |-> Unpadded(@[i])]] = [dict EXCEPT !.cats = cats]
  OBVIOUS
<1> HIDE DEF cats
<1>6. got.serial = dict.serial
  BY DEF ReadSoFar
<1>7. got = [serial |-> got.serial, cats |-> got.cats]
  BY DEF Dictionary
<1>8. [dict EXCEPT !.cats = cats] = [serial |-> dict.serial, cats |-> cats]
  BY DEF Dictionary
<1> QED
  BY <1>4, <1>5, <1>6, <1>7, <1>8

\* A category of which all items have been read.
LEMMA UnpaddedIs ==
  ASSUME NEW c \in Category, NEW e \in Category, c.vendor = 0,
         e.type = c.type, e.vendor = 0, e.pads = 0, Len(e.items) = Len(c.items),
         \A j \in 1..Len(c.items) : e.items[j] = c.items[j]
  PROVE  e = Unpadded(c)
<1> DEFINE Q == Seq(Item(Kind(c)))
<1>1. c \in [type : Type, vendor : Bit, items : Q, pads : Nat]
  BY CategoryDef
<1>2. Kind(e) = Kind(c)
  BY DEF Kind
<1>3. e \in [type : Type, vendor : Bit, items : Q, pads : Nat]
  BY <1>2, CategoryDef
<1>4. e.items = c.items
  <2> DEFINE S == Item(Kind(c))
  <2>1. e.items \in Seq(S) /\ c.items \in Seq(S)
    BY <1>2, CategoryFields
  <2> HIDE DEF S
  <2> QED
    BY <2>1
<1> HIDE DEF Q
<1> QED
  BY <1>1, <1>3, <1>4 DEF Unpadded

\* read_category goes to the next mark, or finds the end of a complete file, or
\* gives up where an incomplete one stops.
LEMMA Chain_read_category ==
  ASSUME TypeOK, Placed, read_category,
         NEW M, NEW cur, Trail(dict, file, M, cur), Front(cur), Reading(M)
  PROVE  (Trail(dict, file, M, cur) /\ Front(cur) /\ Reading(M))'
<1>1. PICK m \in Mark :
           /\ m.seg = seg /\ m.pos = pos
           /\ Within(dict, seg) /\ OnTrack(dict, seg)
           /\ IF m # cur THEN Behind(file, m) /\ Copied(dict, file, m) /\ Reach(file, m) \in M
              ELSE IF complete THEN Ends(dict, file, m) ELSE Stops(file, m)
  BY ReadingMark DEF read_category
<1>2. /\ file \in ByteSeq /\ Len(file) \in Nat /\ pos \in Nat /\ dict \in Dictionary /\ got \in Dictionary
      /\ Len(got.cats) = seg.cat /\ ~seg.open /\ seg.cat \in Nat /\ Len(dict.cats) \in Nat
      /\ task = "read" /\ complete \in BOOLEAN
  <2>1. file \in ByteSeq /\ seg \in Segment /\ dict \in Dictionary /\ got \in Dictionary
    BY DEF TypeOK
  <2>2. m = m /\ m.pos \in Nat
    BY MarkFields
  <2> QED
    BY <1>1, <2>1, <2>2, LenOf, SegmentFields, DictionaryFields DEF TypeOK, Placed, read_category
<1>3. HeaderEnd(file, pos) \in Nat /\ HeaderEnd(file, pos) >= pos + 4
  BY <1>2, ReadsHeader
<1>4. UNCHANGED <<dict, file, complete>>
  BY DEF read_category
<1>5. CASE m # cur
  <2>1. Reach(file, m) = [seg |-> Opened(seg.cat + 1, TypeAt(file, pos), CountAt(file, pos)), pos |-> HeaderEnd(file, pos)]
    BY <1>1, <1>2 DEF Reach
  <2>2. /\ HeaderEnd(file, pos) <= Len(file) /\ Word(file, pos) # 65535
        /\ seg.cat < Len(dict.cats) /\ TypeAt(file, pos) = dict.cats[seg.cat + 1].type
        /\ Reach(file, m) \in M
    <3>1. Reach(file, m).pos = HeaderEnd(file, pos)
      BY <2>1
    <3> QED
      BY <1>1, <1>2, <1>5, <3>1 DEF Behind, Copied
  <2>3. Has(file, pos, 2) /\ ~(HeaderEnd(file, pos) > Len(file))
    BY <1>2, <1>3, <2>2 DEF Has
  <2> DEFINE c == [type |-> TypeAt(file, pos), vendor |-> 0, items |-> <<>>, pads |-> 0]
  <2>4. /\ seg' = Opened(seg.cat + 1, TypeAt(file, pos), CountAt(file, pos))
        /\ pos' = HeaderEnd(file, pos) /\ task' = "read"
        /\ got' = [got EXCEPT !.cats = Append(@, c)]
    BY <1>2, <2>2, <2>3 DEF read_category
  <2>5. [seg |-> seg', pos |-> pos'] \in M
    BY <2>1, <2>2, <2>4
  <2>6. c \in Category /\ c.type = TypeAt(file, pos) /\ c.vendor = 0 /\ c.pads = 0 /\ Len(c.items) = 0
    BY <1>2, ReadsWords, CategoryNew
  <2> HIDE DEF c
  <2>7. /\ got'.serial = got.serial /\ Len(got'.cats) = seg.cat + 1
        /\ \A i \in 1..seg.cat : got'.cats[i] = got.cats[i]
        /\ got'.cats[seg.cat + 1] = c
    BY <1>2, <2>4, <2>6, DictionaryAppend
  <2>8. seg'.cat = seg.cat + 1 /\ seg'.open /\ seg'.idx = 0
    BY <2>4 DEF Opened
  <2>9. ASSUME ReadSoFar(seg) PROVE ReadSoFar(seg)'
    <3>1. got.serial = dict.serial /\ \A i \in 1..seg.cat : got.cats[i] = Unpadded(dict.cats[i])
      BY <1>2, <2>9 DEF ReadSoFar
    <3>2. got'.serial = dict'.serial
      BY <1>4, <2>7, <3>1
    <3>3. ASSUME NEW i \in 1..Len(got'.cats)
          PROVE  IF seg'.open /\ i = seg'.cat
                   THEN /\ got'.cats[i].type = dict'.cats[i].type /\ got'.cats[i].vendor = 0 /\ got'.cats[i].pads = 0
                        /\ Len(got'.cats[i].items) = seg'.idx
                        /\ \A j \in 1..seg'.idx : got'.cats[i].items[j] = dict'.cats[i].items[j]
                   ELSE got'.cats[i] = Unpadded(dict'.cats[i])
      <4>1. CASE i = seg.cat + 1
        BY <1>4, <2>2, <2>6, <2>7, <2>8, <4>1
      <4>2. CASE i # seg.cat + 1
        <5>1. i \in 1..seg.cat
          BY <1>2, <2>7, <4>2
        <5> QED
          BY <1>4, <2>7, <2>8, <3>1, <4>2, <5>1
      <4> QED
        BY <4>1, <4>2
    <3> QED
      BY <3>2, <3>3 DEF ReadSoFar
  <2>10. (Trail(dict, file, M, cur) /\ Front(cur))'
    BY <1>2, <1>4, <2>4, FrontStays
  <2>11. Reading(M)'
    <3>1. AllProper(dict) => ReadSoFar(seg)
      BY <1>2 DEF Reading
    <3> QED
      BY <1>4, <2>4, <2>5, <2>9, <3>1 DEF Reading
  <2> QED
    BY <2>10, <2>11
<1>6. CASE m = cur /\ complete
  <2>1. seg.cat = Len(dict.cats) /\ Has(file, pos, 2) /\ Word(file, pos) = 65535
    BY <1>1, <1>6 DEF Ends
  <2>2. task' = "done" /\ UNCHANGED <<seg, pos, got>>
    BY <2>1 DEF read_category
  <2>3. (Trail(dict, file, M, cur) /\ Front(cur))'
    BY <1>2, <1>4, <1>6, <2>2, FrontStays
  <2>4. AllProper(dict) => got = [dict EXCEPT !.cats = [i \in DOMAIN @ |-> Unpadded(@[i])]]
    <3>1. AllProper(dict) => ReadSoFar(seg)
      BY <1>2 DEF Reading
    <3> QED
      BY <1>2, <2>1, <3>1, ReadWhole
  <2>5. Reading(M)'
    BY <1>4, <2>2, <2>4 DEF Reading
  <2> QED
    BY <2>3, <2>5
<1>7. CASE m = cur /\ ~complete
  <2>1. Has(file, pos, 2) => Word(file, pos) # 65535 /\ HeaderEnd(file, pos) > Len(file)
    BY <1>1, <1>2, <1>7 DEF Stops
  <2>2. HeaderEnd(file, pos) <= Len(file) => Has(file, pos, 2)
    BY <1>2, <1>3 DEF Has
  <2>3. ~(HeaderEnd(file, pos) <= Len(file))
    BY <1>2, <1>3, <2>1, <2>2
  <2>4. Refused
    BY <2>1, <2>3 DEF read_category
  <2> QED
    BY <1>2, <1>4, <1>7, <2>4, ReaderRefused
<1> QED
  BY <1>2, <1>5, <1>6, <1>7

\* read_padding goes to the next mark.
LEMMA Chain_read_padding ==
  ASSUME TypeOK, Placed, read_padding,
         NEW M, NEW cur, Trail(dict, file, M, cur), Front(cur), Reading(M)
  PROVE  (Trail(dict, file, M, cur) /\ Front(cur) /\ Reading(M))'
<1>1. PICK m \in Mark :
           /\ m.seg = seg /\ m.pos = pos
           /\ Within(dict, seg) /\ OnTrack(dict, seg)
           /\ IF m # cur THEN Behind(file, m) /\ Copied(dict, file, m) /\ Reach(file, m) \in M
              ELSE IF complete THEN Ends(dict, file, m) ELSE Stops(file, m)
  BY ReadingMark DEF read_padding
<1>2. /\ seg \in Segment /\ dict \in Dictionary /\ got \in Dictionary
      /\ Len(got.cats) = seg.cat /\ seg.open /\ ~More(seg) /\ task = "read"
  BY DEF TypeOK, Placed, read_padding
<1>3. m # cur
  BY <1>1, <1>2 DEF Ends, Stops
<1>4. Reach(file, m) = [seg |-> Closed(seg.cat), pos |-> pos + Odd(seg)]
  BY <1>1, <1>2 DEF Reach
<1>5. Has(file, pos, Odd(seg)) /\ Reach(file, m) \in M
  BY <1>1, <1>3, <1>4 DEF Behind, Has
<1>6. seg' = Closed(seg.cat) /\ pos' = pos + Odd(seg) /\ UNCHANGED <<task, got, dict, file, complete>>
  BY <1>5 DEF read_padding
<1>7. [seg |-> seg', pos |-> pos'] \in M
  BY <1>4, <1>5, <1>6
<1>8. ASSUME ReadSoFar(seg), AllProper(dict) PROVE ReadSoFar(seg)'
  <2> DEFINE k == seg.cat
             c == dict.cats[k]
             e == got.cats[k]
  <2>1. /\ k \in 1..Len(dict.cats) /\ k \in 1..Len(got.cats) /\ c \in Category /\ e \in Category
    <3>1. k \in 1..Len(dict.cats) /\ c \in Category
      BY <1>1, <1>2, WithinKind
    <3>2. k \in 1..Len(got.cats)
      BY <1>2, <3>1
    <3> QED
      BY <1>2, <3>1, <3>2, DictionaryFields
  <2>2. Proper(c) /\ c.vendor = 0
    BY <1>2, <1>8, <2>1, ProperAligned, ProperFields
  <2>3. seg.idx = Len(c.items)
    BY <1>1, <1>2, <2>2, ItemsDone
  <2>4. /\ e.type = c.type /\ e.vendor = 0 /\ e.pads = 0 /\ Len(e.items) = seg.idx
        /\ \A j \in 1..seg.idx : e.items[j] = c.items[j]
    BY <1>2, <1>8, <2>1 DEF ReadSoFar
  <2> HIDE DEF c, e
  <2>5. e = Unpadded(c)
    BY <2>1, <2>2, <2>3, <2>4, UnpaddedIs
  <2>6. got.serial = dict.serial /\ \A i \in 1..Len(got.cats) : got.cats[i] = Unpadded(dict.cats[i])
    BY <1>8, <2>5 DEF ReadSoFar, c, e
  <2>7. ~seg'.open
    BY <1>6 DEF Closed
  <2> QED
    BY <1>6, <2>6, <2>7 DEF ReadSoFar
<1>9. (Trail(dict, file, M, cur) /\ Front(cur))'
  BY <1>2, <1>6, FrontStays
<1>10. Reading(M)'
  <2>1. AllProper(dict) => ReadSoFar(seg)
    BY <1>2 DEF Reading
  <2> QED
    BY <1>2, <1>6, <1>7, <1>8, <2>1 DEF Reading
<1> QED
  BY <1>9, <1>10

\* read_item goes to the next mark, or gives up where an incomplete file stops.
LEMMA Chain_read_item ==
  ASSUME TypeOK, Placed, read_item,
         NEW M, NEW cur, Trail(dict, file, M, cur), Front(cur), Reading(M)
  PROVE  (Trail(dict, file, M, cur) /\ Front(cur) /\ Reading(M))'
<1>1. PICK m \in Mark :
           /\ m.seg = seg /\ m.pos = pos
           /\ Within(dict, seg) /\ OnTrack(dict, seg)
           /\ IF m # cur THEN Behind(file, m) /\ Copied(dict, file, m) /\ Reach(file, m) \in M
              ELSE IF complete THEN Ends(dict, file, m) ELSE Stops(file, m)
  BY ReadingMark DEF read_item
<1>2. /\ seg \in Segment /\ dict \in Dictionary /\ got \in Dictionary /\ file \in ByteSeq /\ Len(file) \in Nat
      /\ Len(got.cats) = seg.cat /\ seg.open /\ More(seg) /\ task = "read" /\ complete \in BOOLEAN
      /\ seg.idx \in Nat /\ pos \in Nat /\ got.cats[seg.cat].type = seg.type
      /\ UNCHANGED <<dict, file, complete>>
  BY LenOf, SegmentFields DEF TypeOK, Placed, read_item
<1>3. ItemEnd(file, seg, pos) \in Nat /\ ItemAt(file, seg, pos) \in Item(Kind(seg))
  BY <1>2, ReadsItem
<1>4. CASE m # cur
  <2> DEFINE item == ItemAt(file, seg, pos)
             k == seg.cat
             e == got.cats[k]
             items == Append(e.items, item)
  <2>1. /\ Reach(file, m) = [seg |-> Advance(seg, item), pos |-> ItemEnd(file, seg, pos)]
        /\ Reach(file, m) \in M
    BY <1>1, <1>2, <1>4 DEF Reach
  <2>2. /\ ItemEnd(file, seg, pos) <= Len(file)
        /\ seg.idx < Len(dict.cats[k].items) /\ item = dict.cats[k].items[seg.idx + 1]
    <3>1. Reach(file, m).pos = ItemEnd(file, seg, pos)
      BY <2>1
    <3> QED
      BY <1>1, <1>2, <1>4, <3>1 DEF Behind, Copied
  <2>3. /\ task' = "read" /\ pos' = ItemEnd(file, seg, pos) /\ seg' = Advance(seg, item)
        /\ got' = WithItems(got, k, items)
    BY <1>2, <1>3, <2>2 DEF read_item, Refused, WithItems
  <2>4. [seg |-> seg', pos |-> pos'] \in M
    BY <2>1, <2>3
  <2>5. /\ k \in 1..Len(dict.cats) /\ k \in 1..Len(got.cats) /\ e \in Category /\ Kind(e) = Kind(seg)
        /\ Len(e.items) \in Nat
    <3>1. k \in 1..Len(dict.cats)
      BY <1>1, <1>2, WithinKind
    <3>2. k \in 1..Len(got.cats)
      BY <1>2, <3>1
    <3> QED
      BY <1>2, <3>1, <3>2, DictionaryFields, CategoryFields DEF Kind
  <2>6. seg'.cat = k /\ seg'.open /\ seg'.idx = seg.idx + 1
    BY <1>2, <1>3, <2>3, AdvanceFields
  <2>7. /\ items \in Seq(Item(Kind(e))) /\ Len(items) = Len(e.items) + 1
        /\ \A j \in 1..Len(e.items) : items[j] = e.items[j]
        /\ items[Len(e.items) + 1] = item
    <3> DEFINE S == Item(Kind(e))
    <3>1. e.items \in Seq(S) /\ item \in S
      BY <1>3, <2>5, CategoryFields
    <3> HIDE DEF S, item, e
    <3>2. /\ items \in Seq(S) /\ Len(items) = Len(e.items) + 1
          /\ \A j \in 1..Len(e.items) : items[j] = e.items[j]
          /\ items[Len(e.items) + 1] = item
      BY <3>1
    <3> QED
      BY <3>2 DEF S
  <2> HIDE DEF item, items
  <2>8. /\ got' \in Dictionary /\ got'.serial = got.serial /\ Len(got'.cats) = Len(got.cats)
        /\ \A i \in 1..Len(got.cats) : i # k => got'.cats[i] = got.cats[i]
        /\ got'.cats[k] = [e EXCEPT !.items = items]
    BY <1>2, <2>3, <2>5, <2>7, DictionaryWith, SMTT(30)
  <2>9. /\ got'.cats[k].items = items /\ got'.cats[k].type = e.type
        /\ got'.cats[k].vendor = e.vendor /\ got'.cats[k].pads = e.pads
    BY <2>5, <2>7, <2>8, CategoryWith
  <2>10. ASSUME ReadSoFar(seg) PROVE ReadSoFar(seg)'
    <3>1. /\ got.serial = dict.serial
          /\ \A i \in 1..Len(got.cats) : i # k => got.cats[i] = Unpadded(dict.cats[i])
          /\ e.type = dict.cats[k].type /\ e.vendor = 0 /\ e.pads = 0 /\ Len(e.items) = seg.idx
          /\ \A j \in 1..seg.idx : e.items[j] = dict.cats[k].items[j]
      BY <1>2, <2>5, <2>10 DEF ReadSoFar
    <3> HIDE DEF e
    <3>2. \A j \in 1..(seg.idx + 1) : items[j] = dict.cats[k].items[j]
      <4>1. ASSUME NEW j \in 1..(seg.idx + 1) PROVE items[j] = dict.cats[k].items[j]
        <5>1. CASE j = seg.idx + 1
          BY <2>2, <2>7, <3>1, <5>1
        <5>2. CASE j # seg.idx + 1
          <6>1. j \in 1..seg.idx
            BY <1>2, <5>2
          <6> QED
            BY <2>7, <3>1, <6>1
        <5> QED
          BY <5>1, <5>2
      <4> QED
        BY <4>1
    <3>3. ASSUME NEW i \in 1..Len(got'.cats)
          PROVE  IF seg'.open /\ i = seg'.cat
                   THEN /\ got'.cats[i].type = dict'.cats[i].type /\ got'.cats[i].vendor = 0 /\ got'.cats[i].pads = 0
                        /\ Len(got'.cats[i].items) = seg'.idx
                        /\ \A j \in 1..seg'.idx : got'.cats[i].items[j] = dict'.cats[i].items[j]
                   ELSE got'.cats[i] = Unpadded(dict'.cats[i])
      <4>1. CASE i = k
        BY <1>2, <2>6, <2>7, <2>9, <3>1, <3>2, <4>1
      <4>2. CASE i # k
        BY <1>2, <2>6, <2>8, <3>1, <4>2
      <4> QED
        BY <4>1, <4>2
    <3> QED
      BY <1>2, <2>8, <3>1, <3>3 DEF ReadSoFar
  <2>11. (Trail(dict, file, M, cur) /\ Front(cur))'
    BY <1>2, <2>3, FrontStays
  <2>12. Reading(M)'
    <3>1. AllProper(dict) => ReadSoFar(seg)
      BY <1>2 DEF Reading
    <3> QED
      BY <1>2, <2>3, <2>4, <2>10, <3>1 DEF Reading
  <2> QED
    BY <2>11, <2>12
<1>5. CASE m = cur
  <2>1. ~complete /\ ItemEnd(file, seg, pos) > Len(file)
    BY <1>1, <1>2, <1>5 DEF Ends, Stops
  <2>2. Refused
    BY <1>2, <1>3, <2>1 DEF read_item
  <2> QED
    BY <1>2, <2>1, <2>2, ReaderRefused
<1> QED
  BY <1>4, <1>5

(***************************************************************************)
(* The invariant.                                                          *)
(***************************************************************************)
\* At the start nothing is written, or the file is another tool's.
LEMMA WrittenInit == Init => Sized /\ Written
<1>1. ASSUME Init PROVE Sized /\ Written
  <2>1. task = "idle" \/ (file \in Files /\ task = "written" /\ complete = TRUE)
    BY <1>1 DEF Init
  <2> QED
    BY <2>1 DEF Sized, Written, Foreign
<1> QED
  BY <1>1

\* What the program does when it takes a step.
LEMMA Tasks ==
  /\ \A n, s : m3rt_eeprom(n, s) => task = "idle"
  /\ dict_to_eeprom => task = "idle"
  /\ write_category \/ write_item \/ write_padding \/ write_footer => task = "write"
  /\ compute_word_size \/ write_size => task = "size"
  /\ eeprom_to_dict => task \in {"written", "raised"}
  /\ read_category \/ read_item \/ read_padding => task = "read"
  /\ Again => task = "done" /\ task' = "idle"
<1>1. (\A n, s : m3rt_eeprom(n, s) => task = "idle") /\ (dict_to_eeprom => task = "idle")
  BY SMTT(30) DEF m3rt_eeprom, dict_to_eeprom
<1>2. /\ write_category => task = "write"
      /\ write_item => task = "write"
      /\ write_padding => task = "write"
      /\ write_footer => task = "write"
  BY SMTT(30) DEF write_category, write_item, write_padding, write_footer
<1>3. (compute_word_size => task = "size") /\ (write_size => task = "size")
  BY DEF compute_word_size, write_size
<1>4. eeprom_to_dict => task \in {"written", "raised"}
  BY DEF eeprom_to_dict
<1>5. /\ read_category => task = "read"
      /\ read_item => task = "read"
      /\ read_padding => task = "read"
  BY DEF read_category, read_item, read_padding
<1>6. Again => task = "done" /\ task' = "idle"
  BY DEF Again
<1> QED
  BY <1>1, <1>2, <1>3, <1>4, <1>5, <1>6

\* The file of another tool, and one that broke off in the fields, are read and
\* written by no step that would make anything else of them.
LEMMA ForeignStays ==
  ASSUME Foreign, [Next]_vars
  PROVE  task' = "idle" \/ Foreign'
<1>1. task \in {"written", "read", "refused", "done"} /\ complete /\ file \in Files
  BY DEF Foreign
<1>2. CASE eeprom_to_dict
  BY <1>1, <1>2 DEF eeprom_to_dict, Refused, Foreign
<1>3. CASE read_category
  BY <1>1, <1>3 DEF read_category, Refused, Foreign
<1>4. CASE read_item
  BY <1>1, <1>4 DEF read_item, Refused, Foreign
<1>5. CASE read_padding
  BY <1>1, <1>5 DEF read_padding, Refused, Foreign
<1>6. CASE Again
  BY <1>6 DEF Again
<1>7. CASE UNCHANGED vars
  BY <1>1, <1>7 DEF vars, Foreign
<1>8. /\ \A n, s : ~m3rt_eeprom(n, s)
      /\ ~dict_to_eeprom /\ ~write_category /\ ~compute_word_size /\ ~write_size
      /\ ~write_item /\ ~write_padding /\ ~write_footer
  BY <1>1, Tasks
<1> QED
  BY <1>2, <1>3, <1>4, <1>5, <1>6, <1>7, <1>8 DEF Next

\* A file that broke off in the fields is never read.
LEMMA ShortStays ==
  ASSUME TypeOK, Short, [Next]_vars
  PROVE  Short'
<1>1. task \in {"raised", "refused"} /\ ~complete /\ ~DoubleWordFits(dict.serial) /\ Len(file) < Header
  BY DEF Short
<1>2. CASE eeprom_to_dict
  <2>1. ~Has(file, 0, Header)
    <3>1. Len(file) \in Nat /\ Header = 128
      BY LenOf DEF TypeOK, Header
    <3> QED
      BY <1>1, <3>1 DEF Has
  <2>2. task' = "refused" /\ UNCHANGED <<dict, file, complete>>
    BY <1>2, <2>1 DEF eeprom_to_dict, Refused
  <2> QED
    BY <1>1, <2>2 DEF Short
<1>3. CASE UNCHANGED vars
  BY <1>1, <1>3 DEF vars, Short
<1>4. /\ \A n, s : ~m3rt_eeprom(n, s)
      /\ ~dict_to_eeprom /\ ~write_category /\ ~compute_word_size /\ ~write_size
      /\ ~write_item /\ ~write_padding /\ ~write_footer
      /\ ~read_category /\ ~read_item /\ ~read_padding /\ ~Again
  BY <1>1, Tasks
<1> QED
  BY <1>2, <1>3, <1>4 DEF Next

\* The trail goes on with every step, until the program is idle again.
LEMMA TrailStays ==
  ASSUME TypeOK, Placed, Sized, AllAligned(dict), task # "idle", [Next]_vars,
         NEW M, NEW cur, Trail(dict, file, M, cur), Front(cur), Reading(M)
  PROVE  \/ task' = "idle"
         \/ \E N, front : (Trail(dict, file, N, front) /\ Front(front) /\ Reading(N))'
<1> DEFINE Goes(N, front) == (Trail(dict, file, N, front) /\ Front(front) /\ Reading(N))'
<1> SUFFICES task' = "idle" \/ \E N, front : Goes(N, front)
  OBVIOUS
<1>1. CASE write_category
  <2>1. Goes(M, cur)
    BY <1>1, Chain_write_category
  <2> HIDE DEF Goes
  <2> QED
    BY <2>1
<1>2. CASE compute_word_size
  <2>1. Goes(M, cur)
    BY <1>2, Chain_compute_word_size
  <2> HIDE DEF Goes
  <2> QED
    BY <2>1
<1>3. CASE write_size
  BY <1>3, Chain_write_size
<1>4. CASE write_item
  BY <1>4, Chain_write_item
<1>5. CASE write_padding
  BY <1>5, Chain_write_padding
<1>6. CASE write_footer
  <2>1. Goes(M, cur)
    BY <1>6, Chain_write_footer
  <2> HIDE DEF Goes
  <2> QED
    BY <2>1
<1>7. CASE eeprom_to_dict
  <2>1. Goes(M, cur)
    BY <1>7, Chain_eeprom_to_dict
  <2> HIDE DEF Goes
  <2> QED
    BY <2>1
<1>8. CASE read_category
  <2>1. Goes(M, cur)
    BY <1>8, Chain_read_category
  <2> HIDE DEF Goes
  <2> QED
    BY <2>1
<1>9. CASE read_item
  <2>1. Goes(M, cur)
    BY <1>9, Chain_read_item
  <2> HIDE DEF Goes
  <2> QED
    BY <2>1
<1>10. CASE read_padding
  <2>1. Goes(M, cur)
    BY <1>10, Chain_read_padding
  <2> HIDE DEF Goes
  <2> QED
    BY <2>1
<1>11. CASE Again
  BY <1>11 DEF Again
<1>12. CASE UNCHANGED vars
  <2>1. Goes(M, cur)
    BY <1>12 DEF vars, Front, Reading, ReadSoFar
  <2> HIDE DEF Goes
  <2> QED
    BY <2>1
<1>13. ~dict_to_eeprom /\ \A n, s : ~m3rt_eeprom(n, s)
  BY DEF dict_to_eeprom, m3rt_eeprom
<1> HIDE DEF Goes
<1> QED
  BY <1>1, <1>2, <1>3, <1>4, <1>5, <1>6, <1>7, <1>8, <1>9, <1>10, <1>11, <1>12, <1>13 DEF Next

\* The writer leaves the dictionary alone.
LEMMA WriterKeeps ==
  ASSUME write_category \/ compute_word_size \/ write_size \/ write_item \/ write_padding \/ write_footer
  PROVE  dict' = dict
<1>1. CASE write_category
  BY <1>1 DEF write_category
<1>2. CASE compute_word_size
  BY <1>2 DEF compute_word_size
<1>3. CASE write_size
  BY <1>3, Zenon DEF write_size
<1>4. CASE write_item
  BY <1>4, Zenon DEF write_item
<1>5. CASE write_padding
  BY <1>5 DEF write_padding
<1>6. CASE write_footer
  BY <1>6 DEF write_footer
<1> QED
  BY <1>1, <1>2, <1>3, <1>4, <1>5, <1>6

\* What the file says of the dictionary stays true with every step.
LEMMA WrittenNext ==
  ASSUME TypeOK, Placed, Sized, Written, [Next]_vars
  PROVE  Written'
<1>1. SUFFICES ASSUME AllAligned(dict'), task' # "idle"
      PROVE  (Foreign \/ Short \/ \E M, cur : Trail(dict, file, M, cur) /\ Front(cur) /\ Reading(M))'
  <2>1. \A M, cur : Trail(dict, file, M, cur)' => M \in SUBSET Mark /\ cur \in M
    BY DEF Trail
  <2> QED
    BY <2>1 DEF Written
<1>2. CASE dict_to_eeprom
  BY <1>2, Chain_dict_to_eeprom
<1>3. CASE ~dict_to_eeprom
  <2>1. dict' = dict /\ task # "idle"
    <3>1. (\A n, s : ~m3rt_eeprom(n, s)) /\ ~Again
      BY <1>1, Tasks DEF m3rt_eeprom
    <3>2. CASE UNCHANGED vars
      BY <1>1, <3>2 DEF vars
    <3>3. CASE write_category \/ compute_word_size \/ write_size \/ write_item \/ write_padding \/ write_footer
      <4>1. dict' = dict
        BY <3>3, WriterKeeps
      <4>2. task = "write" \/ task = "size"
        BY <3>3, Tasks
      <4> QED
        BY <3>3, <4>1, <4>2
    <3>4. CASE eeprom_to_dict \/ read_category \/ read_item \/ read_padding
      BY <3>4, Tasks DEF eeprom_to_dict, read_category, read_item, read_padding
    <3> QED
      BY <1>3, <3>1, <3>2, <3>3, <3>4 DEF Next
  <2>2. AllAligned(dict)
    BY <1>1, <2>1
  <2>3. Foreign \/ Short \/ \E M, cur : Trail(dict, file, M, cur) /\ Front(cur) /\ Reading(M)
    BY <2>1, <2>2 DEF Written
  <2>4. CASE Foreign
    BY <1>1, <2>4, ForeignStays
  <2>5. CASE Short
    BY <2>5, ShortStays
  <2>6. CASE \E M, cur : Trail(dict, file, M, cur) /\ Front(cur) /\ Reading(M)
    <3>1. PICK M, cur : Trail(dict, file, M, cur) /\ Front(cur) /\ Reading(M)
      BY <2>6
    <3> QED
      BY <1>1, <2>1, <2>2, <3>1, TrailStays
  <2> QED
    BY <2>3, <2>4, <2>5, <2>6
<1> QED
  BY <1>2, <1>3

\* Where the program is in a file and in a dictionary, and what the part of the
\* file behind it says of the dictionary, is kept by every step.
THEOREM Eeprom_IInv == Spec => []IInv
<1>1. Init => IInv
  BY TypeInit, WrittenInit DEF IInv
<1>2. IInv /\ [Next]_vars => IInv'
  BY TypeNext, SizedNext, WrittenNext DEF IInv
<1> QED
  BY <1>1, <1>2, PTL DEF Spec

\* A file that was broken off, by whatever the writer raised on, is never read
\* as a whole one, if the categories of the dictionary are aligned.
THEOREM Eeprom_CompleteOrRefused == Spec => []CompleteOrRefused
<1>1. ASSUME IInv, \A i \in DOMAIN dict.cats : Aligned(dict.cats[i]), task = "done"
      PROVE  complete
  <2>1. AllAligned(dict)
    <3>1. DOMAIN dict.cats = 1..Len(dict.cats)
      BY <1>1, DictionaryFields DEF IInv, TypeOK
    <3> QED
      BY <1>1, <3>1 DEF AllAligned
  <2>2. Foreign \/ Short \/ \E M, cur : Trail(dict, file, M, cur) /\ Front(cur) /\ Reading(M)
    BY <1>1, <2>1 DEF IInv, Written
  <2> QED
    BY <1>1, <2>2 DEF Foreign, Short, Front
<1>2. IInv => CompleteOrRefused
  BY <1>1 DEF CompleteOrRefused
<1> QED
  BY <1>2, Eeprom_IInv, PTL

\* A dictionary of proper categories is written whole, and what is read of the
\* file is that dictionary.
THEOREM Eeprom_RoundTrip == Spec => []RoundTrip
<1>1. ASSUME IInv, file \notin Files, DoubleWordFits(dict.serial), \A i \in DOMAIN dict.cats : Proper(dict.cats[i])
      PROVE  /\ task \notin {"raised", "refused"}
             /\ task = "done" => got = [dict EXCEPT !.cats = [i \in DOMAIN @ |-> Unpadded(@[i])]]
  <2>1. AllProper(dict)
    <3>1. DOMAIN dict.cats = 1..Len(dict.cats)
      BY <1>1, DictionaryFields DEF IInv, TypeOK
    <3> QED
      BY <1>1, <3>1 DEF AllProper
  <2>2. AllAligned(dict)
    BY <2>1, ProperFields DEF AllProper, AllAligned
  <2>3. CASE task = "idle"
    BY <2>3
  <2>4. CASE task # "idle"
    <3>1. Foreign \/ Short \/ \E M, cur : Trail(dict, file, M, cur) /\ Front(cur) /\ Reading(M)
      BY <1>1, <2>2, <2>4 DEF IInv, Written
    <3>2. PICK M, cur : Trail(dict, file, M, cur) /\ Front(cur) /\ Reading(M)
      BY <1>1, <3>1 DEF Foreign, Short
    <3>3. task \notin {"raised", "refused"}
      BY <2>1, <3>2 DEF Front
    <3>4. task = "done" => got = [dict EXCEPT !.cats = [i \in DOMAIN @ |-> Unpadded(@[i])]]
      BY <2>1, <3>2 DEF Reading
    <3> QED
      BY <3>3, <3>4
  <2> QED
    BY <2>3, <2>4
<1>2. IInv => RoundTrip
  BY <1>1 DEF RoundTrip
<1> QED
  BY <1>2, Eeprom_IInv, PTL
=============================================================================
