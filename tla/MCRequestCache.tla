---------------------------- MODULE MCRequestCache ----------------------------
(***************************************************************************)
(* An item that one or both of two users may see, and the collection of    *)
(* one of them, with enough requests for a change to overtake a read and   *)
(* for another to follow it.                                               *)
(***************************************************************************)
EXTENDS RequestCache, TLC

CONSTANTS note, outbox, alice, bob, anonymous, r1, r2, r3, r4, w1, w2

NotePrivate == note :> {alice} @@ outbox :> {alice}

\* outbox is alice's; bob has one of his own, who is not logged in has none.
Outboxes ==
  alice :> (outbox :> "this") @@ bob :> (outbox :> "other") @@ anonymous :> (outbox :> "none")

Asked   == r1 :> note @@ r2 :> note @@ r3 :> outbox @@ r4 :> outbox
Asking  == r1 :> alice @@ r2 :> bob @@ r3 :> anonymous @@ r4 :> bob
Changed == w1 :> note @@ w2 :> outbox

\* Items alone
NoOutboxes  == [a \in {alice, bob} |-> <<>>]
WantNote    == r1 :> note @@ r2 :> note
UserMap     == r1 :> alice @@ r2 :> bob
ChangeNote  == w1 :> note @@ w2 :> note
NoteForBoth == note :> {alice, bob}

=============================================================================
