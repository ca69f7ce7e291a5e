-------------------------------- MODULE Fifo --------------------------------
(***************************************************************************)
(* What a kfifo promises its one writer and its one reader: what comes out *)
(* is what went in, in order, and nothing twice.  A fifo of elements holds *)
(* a sequence of them; a fifo of records holds a sequence of records, each *)
(* of which is taken, or dropped, as a whole.                              *)
(***************************************************************************)
EXTENDS Naturals, Sequences

CONSTANT Byte      \* what an element or a byte of a record may be

VARIABLES
  ofRecords,       \* whether the fifo holds records
  items,           \* what it holds: elements, or records
  given,           \* what the call of the writer is putting in
  got              \* what the last call of the reader returned

vars == <<ofRecords, items, given, got>>

Beginnings(s) == {SubSeq(s, 1, n) : n \in 0..Len(s)}

Init == /\ ofRecords \in BOOLEAN
        /\ items = <<>> /\ given = <<>> /\ got = <<>>

Offer == /\ given = <<>>
         /\ given' \in Seq(Byte)
         /\ UNCHANGED <<ofRecords, items, got>>

(* The elements that fitted, or a record.                                  *)
Put == /\ \E part \in Beginnings(given) :
            items' = IF ofRecords THEN Append(items, part) ELSE items \o part
       /\ given' = <<>>
       /\ UNCHANGED <<ofRecords, got>>

Refuse == given' = <<>> /\ UNCHANGED <<ofRecords, items, got>>

Drop(n) == items' = SubSeq(items, n + 1, Len(items))

(* The reader asks for some elements, or for a record into a buffer that   *)
(* may be too short for it.                                                *)
Take == \/ /\ ~ofRecords
           /\ \E n \in 1..Len(items) : got' = SubSeq(items, 1, n) /\ Drop(n)
           /\ UNCHANGED <<ofRecords, given>>
        \/ /\ ofRecords /\ items # <<>>
           /\ got' \in Beginnings(Head(items))
           /\ Drop(1)
           /\ UNCHANGED <<ofRecords, given>>

Peek == /\ got' \in IF ofRecords
                      THEN IF items = <<>> THEN {<<>>} ELSE Beginnings(Head(items))
                      ELSE Beginnings(items)
        /\ UNCHANGED <<ofRecords, items, given>>

Discard == /\ \E n \in 0..Len(items) : Drop(n)
           /\ UNCHANGED <<ofRecords, given, got>>

Next == Offer \/ Put \/ Refuse \/ Take \/ Peek \/ Discard

Spec == Init /\ [][Next]_vars
=============================================================================
