------------------------------ MODULE MCEeprom ------------------------------
(* Dictionaries of up to two categories of every sort, proper ones and ones  *)
(* the writer stumbles over, and a file with a vendor's unknown category.    *)
EXTENDS Eeprom

Cat(type, items) == [type |-> type, vendor |-> 0, items |-> items, pads |-> 0]
Elems(type, items, pads) == [type |-> type, vendor |-> 0, items |-> items, pads |-> pads]
PDO(n, b) == [pdo |-> TRUE, bytes |-> <<b, 1, n, 0, 0, 1, 0, b>>]
Entry(b) == [pdo |-> FALSE, bytes |-> <<b, 255, 255, 255, 255, 2, 3, b>>]
Info(pad) == [fields |-> [i \in 1..13 |-> i], ports |-> <<1, 3, 0, 2>>, PAD_Byte |-> Zeros(pad)]
Long == [i \in 1..256 |-> 1]

Categories == {
  Cat(10, <<>>), Cat(10, <<<<65>>, <<66, 67>>>>), Cat(10, <<<<>>, <<65, 66>>>>), Cat(10, <<Long>>), Cat(10, [i \in 1..256 |-> <<>>]),
  Cat(30, <<Info(18)>>), Cat(30, <<Info(17)>>), Cat(40, <<<<1, 2>>>>),
  Elems(41, <<Entry(1), Entry(2)>>, 1), Elems(41, <<Entry(1)>>, 0), Elems(41, <<>>, 0),
  Cat(50, <<PDO(1, 7), Entry(7), PDO(0, 8)>>), Elems(51, <<PDO(2, 7), Entry(7), Entry(9)>>, 1),
  Cat(51, <<PDO(2, 7), Entry(7)>>), Cat(50, <<PDO(0, 7), Entry(9)>>),
  Cat(60, <<1, 2>>), [Cat(40, <<<<1, 2>>>>) EXCEPT !.vendor = 1]}

\* Misaligned, so that strings are read which end with the file, unpadded.
Crooked == <<Cat(30, <<Info(17)>>), Elems(41, <<[pdo |-> FALSE, bytes |-> <<0, 10, 0, 0, 0, 1, 1, 65>>]>>, 0),
             [Cat(40, <<<<1, 2>>>>) EXCEPT !.vendor = 1]>>

MCDictionaries ==
  {[serial |-> 0, cats |-> s] : s \in {<<>>, Crooked} \cup {<<c>> : c \in Categories} \cup
                                       {<<c, d>> : c \in Categories, d \in Categories}}
MCFiles == {Zeros(128) \o <<60, 0, 1, 0, 1, 2>> \o <<40, 128, 1, 0, 3, 4>> \o <<255, 255>>}
MCNames == {<<91, 93>>}
MCSerials == {7, 65537, -1}
=============================================================================
