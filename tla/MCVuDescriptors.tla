-------------------------- MODULE MCVuDescriptors ---------------------------
EXTENDS VuDescriptors
(* Two regions side by side, and nothing above them.                       *)
MCRegions == <<[gpa |-> 0, size |-> 4, va |-> 20], [gpa |-> 4, size |-> 4, va |-> 10]>>

End == -1   \* the link of the last descriptor
Direct(places, links) ==
    {[addr |-> p[1], len |-> p[2], write |-> w, more |-> l # End,
      next |-> IF l = End THEN 0 ELSE l, indirect |-> FALSE] :
        p \in places, w \in BOOLEAN, l \in links}
Inside == <<1, 2>>
Across == <<3, 2>>
Outside == <<7, 2>>
Nothing == <<5, 0>>
Far == <<5, 2>>        \* its last byte is on a page that the log has not
Huge == <<0, 15>>      \* two of them wrap a total, or one and another buffer

Indirect == [addr |-> 0, len |-> 1, write |-> FALSE, more |-> FALSE, next |-> 0,
             indirect |-> TRUE]
NoIndirect == [entries |-> << >>, ragged |-> FALSE, first |-> 0, rest |-> FALSE]
Ring(n) == [ring |-> <<0, 1, 2>>, idx |-> n]
Plain == CHOOSE d \in Direct({Inside}, {End}) : d.write

(* Chains of up to three descriptors, with every link.                     *)
Chained == {[table |-> t, ind |-> NoIndirect, avail |-> Ring(1)] :
               t \in [1..3 -> Direct({Inside, Across}, {End, 0, 1, 2})]}
(* Buffers that are no buffers, links out of the table, pages not logged.  *)
Wrong == {[table |-> <<a, b, Plain>>, ind |-> NoIndirect, avail |-> Ring(1)] :
             a \in Direct({Inside, Outside, Nothing, Far}, {End, 1, 3}),
             b \in Direct({Inside, Outside, Nothing, Far}, {End, 2, 3})}
(* Totals about the largest unsigned int, in one chain and in two.         *)
Large == {[table |-> <<a, b, Plain>>, ind |-> NoIndirect, avail |-> r] :
             a, b \in Direct({Inside, Huge}, {End, 1, 2}), r \in {Ring(1), Ring(2)}}
(* Several heads, of which some are none or the same, or too many.         *)
Several == {[table |-> <<a, b, Plain>>, ind |-> NoIndirect, avail |-> r] :
               a, b \in Direct({Inside}, {End, 1, 2}),
               r \in {Ring(2), Ring(3), Ring(4), [ring |-> <<3, 0, 1>>, idx |-> 2],
                      [ring |-> <<0, 0, 0>>, idx |-> 3]}}
(* Indirect tables: whole, in two regions, part of them nowhere; the copy  *)
(* of one in two regions fits in desc_buf, or runs over it.                *)
Tables == {[table |-> <<a, Indirect, Plain>>,
            ind |-> [entries |-> <<b, c, Plain>>, ragged |-> g, first |-> f, rest |-> r],
            avail |-> [ring |-> <<1, 0, 2>>, idx |-> 2]] :
              a \in Direct({Inside}, {End, 2}),
              b \in Direct({Inside, Across}, {End, 1, 2}),
              c \in Direct({Inside, Across}, {End, 0, 2, 3}),
              g \in {FALSE}, f \in 0..3, r \in BOOLEAN}
Ragged == {[m EXCEPT !.ind.ragged = TRUE] : m \in {CHOOSE m \in Tables : TRUE}}

MCMemories == Chained \cup Wrong \cup Large \cup Several \cup Tables \cup Ragged
MCDescs == {Plain}
MCLimits == {<<0, 0>>, <<2, 0>>, <<2, 2>>, <<4, 2>>, <<9, 9>>}
=============================================================================
