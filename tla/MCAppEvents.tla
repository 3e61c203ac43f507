---------------------------- MODULE MCAppEvents ----------------------------
(***************************************************************************)
(* An instance: two versions of a note, the newer of which expires, a note *)
(* of another author in another area, the profile of that one, a message.  *)
(***************************************************************************)
EXTENDS AppEvents

CONSTANTS ann, bob, here, there, x, y, z

MCEvents == {
    [kind |-> "note", addr |-> x, at |-> 1, author |-> ann, area |-> here, ends |-> FALSE],
    [kind |-> "note", addr |-> x, at |-> 2, author |-> ann, area |-> here, ends |-> TRUE],
    [kind |-> "note", addr |-> y, at |-> 1, author |-> bob, area |-> there, ends |-> FALSE],
    [kind |-> "profile", addr |-> z, at |-> 1, author |-> bob, area |-> None, ends |-> FALSE],
    [kind |-> "message", addr |-> None, at |-> 1, author |-> bob, area |-> None, ends |-> FALSE]}

MCAddresses == {x, y, z}
MCAuthors == {ann, bob}
MCAreas == {here, there}

=============================================================================
