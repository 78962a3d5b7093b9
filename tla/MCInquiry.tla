------------------------------ MODULE MCInquiry ------------------------------
(***************************************************************************)
(* Two devices, one of which says that it is an end device, and a third    *)
(* address, that one of them may move to.                                  *)
(***************************************************************************)
EXTENDS Inquiry, TLC

CONSTANTS c1, c2, a1, a2, a3, self, a0, e1, e2

Asks(kind, about, dst) ==
    [kind |-> kind, about |-> about, dst |-> dst, start |-> None, endpoint |-> None,
     profile |-> 0, ins |-> {}, outs |-> {}]

MCHistories == {<< <<a2, c2>> >>, << <<a3, c2>>, <<a1, c2>> >>}

MCHome == c1 :> a1 @@ c2 :> a2

MCDescription ==
    e1 :> [profile |-> 260, ins |-> {6}, outs |-> {}] @@
    e2 :> [profile |-> 260, ins |-> {}, outs |-> {6}]

MCAnnouncements == {Asks("announce", None, "idle")}

MCQuestions ==
    c1 :> {Asks("nwkAddr", c2, "everyone"),
           [Asks("nwkAddr", self, "own") EXCEPT !.start = 1],
           Asks("ieeeAddr", a1, "own"),
           [Asks("simple", a0, "own") EXCEPT !.endpoint = e2],
           [Asks("match", Everyone, "everyone") EXCEPT !.profile = 260, !.outs = {6}],
           Asks("match", a2, "own")} @@
    c2 :> {Asks("endpoints", a1, "own")}
=============================================================================
