------------------------------ MODULE MCNetlog ------------------------------
(* Netlog for TLC.  In MCScript producer a sends a line longer than the    *)
(* buffer, b an ordinary one, and c only takes a slot.                     *)
EXTENDS Netlog

CONSTANTS a, b, c

MCScript == [p \in Producers |->
               CASE p = a -> <<"3", SP, SP, "y", NL>>
                 [] p = b -> <<"1", NL>>
                 [] p = c -> << >>]

ShortScript == [p \in Producers |-> IF p = a THEN <<"1", NL>> ELSE <<"2">>]

LateScript == [p \in Producers |-> IF p = c THEN <<"1">> ELSE << >>]

MaybeIn == {{}, {"IN"}}
ZeroStack == {{}}
=============================================================================
