---------------------------- MODULE MCLinkCheck ----------------------------
(* LinkCheck with two workers, a channel of one, and runs of a packages    *)
(* job and a path, three links in all.                                     *)
EXTENDS LinkCheck

Link(t, f, o, b, d, u) ==
  [kind |-> "link", target |-> t, finds |-> f, opens |-> o,
   base |-> b, depth |-> d, ups |-> u]
Other == [Link("rel", "file", TRUE, "abs", 0, 0) EXCEPT !.kind = "other"]
Missing == [Other EXCEPT !.kind = "missing"]
Fine == Link("rel", "file", TRUE, "here", 1, 1)
Dangling == Link("abs", "nothing", FALSE, "abs", 1, 0)
Odd == {Link("abs", "file", TRUE, "abs", 1, 0), Link("rel", "error", TRUE, "abs", 1, 0),
        Link("rel", "file", FALSE, "abs", 1, 0), Link("rel", "file", TRUE, "abs", 0, 2),
        Link("rel", "file", TRUE, "here", 1, 2), Link("rel", "file", TRUE, "up", 1, 0)}

MCWorkers == {"w1", "w2"}
MCCap == 1
MCMaxGone == 1
MCEntries == {Other, Missing, Fine, Dangling} \cup Odd
J(ok, entries) == [ok |-> ok, entries |-> entries]
MCRuns == {<<J(TRUE, <<l, Fine, Dangling>>)>> : l \in Odd} \cup
          {<<J(a, <<Missing, Fine>>), J(TRUE, <<Other, l>>), J(b, <<>>)>> :
             a \in BOOLEAN, b \in BOOLEAN, l \in {Fine, Dangling}}
=============================================================================
