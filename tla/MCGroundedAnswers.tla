--------------------------- MODULE MCGroundedAnswers ---------------------------
(***************************************************************************)
(* GroundedAnswers for TLC: a country, a city and a place, in the order    *)
(* 1, 2, 3 or with the parent behind its child, and catalogs that leave a  *)
(* record out, get it wrong or turn a parent around.                       *)
(***************************************************************************)
EXTENDS GroundedWork

Under(p) == [kind |-> "place", parent |-> p, known |-> TRUE, active |-> TRUE, names |-> {}]
Absent == [kind |-> "absent", parent |-> Top, known |-> FALSE, active |-> FALSE, names |-> {}]
Bad == [Absent EXCEPT !.kind = "bad"]
Unsourced(p) == [Under(p) EXCEPT !.known = FALSE]
Deprecated(p) == [Under(p) EXCEPT !.active = FALSE]
Naming(r, keys) == [r EXCEPT !.names = keys]

Picks == <<{Under(Top), Bad}, {Under(1), Under(3)},
           {Absent, Under(2), Unsourced(1), Deprecated(1)}>>
\* Besides, a country that names the place as one of its own identities, which
\* closes a ring of parents, and a place that takes over the city.
MCCatalogs == {<<a, b, c>> : a \in Picks[1], b \in Picks[2], c \in Picks[3]}
              \union {<<Naming(Under(Top), {3}), Under(1), Under(2)>>,
                      <<Under(Top), Under(1), Naming(Under(1), {2})>>}

Budget(i, s, t) == [items |-> i, sources |-> s, tokens |-> t]
MCRequests ==
  {[page |-> TRUE, root |-> 3, kinds |-> <<>>, budget |-> Budget(0, 0, 0)],
   [page |-> FALSE, root |-> 1, kinds |-> <<"practical">>, budget |-> Budget(1, 3, 3)],
   [page |-> FALSE, root |-> 1, kinds |-> <<"practical", "place">>, budget |-> Budget(3, 2, 3)]}
MCKind == <<"practical", "place", "place">>
MCAuthority == <<"official", "curated", "licensed">>
MCRelevance == <<0, 500, 1000>>
MCSources == <<{1}, {2}, {2, 3}>>

\* Two places that are open, one that is said to be closed as well, one of which
\* nothing is known; item x is varied beside an ordinary y, and the day of z.
Fact(k, v) == <<k, v>>
Evidence ==
  {[places |-> {"p", "q"}, facts |-> {Fact("availability", "open"), Fact("accessibility", "yes")}],
   [places |-> {"q", "r"}, facts |-> {Fact("operating_status", "open"), Fact("price", "low")}],
   [places |-> {"s"}, facts |-> {Fact("availability", "open"), Fact("operating_status", "closed")}],
   [places |-> {"q"}, facts |-> {Fact("wheelchair_accessible", "no")}],
   [places |-> {"t"}, facts |-> {}]}
Source(id, as) == [id |-> id, as |-> as]
Brief(needs, budget, unit) ==
  [asked |-> {1}, grounded |-> {1}, from |-> 1, to |-> 2, transfers |-> 1, longest |-> 60, needs |-> needs,
   budget |-> budget, unit |-> unit, evidence |-> Evidence, sources |-> {Source(1, "read")}]
MCBriefs == {Brief(TRUE, 30, 1000), Brief(FALSE, 3000, 10), Brief(FALSE, Null, 10),
             [Brief(FALSE, Null, 10) EXCEPT !.grounded = {1, 2}]}

Price(min, max) == [min |-> min, max |-> max, ours |-> TRUE]
Item(id, at, from, to) ==
  [id |-> id, type |-> "activity", place |-> at, from |-> from, to |-> to, lasts |-> Null,
   cost |-> Price(10000, Null), cites |-> {1}]
X == Item("x", "p", 540, 600)
Rides == [X EXCEPT !.type = "transport", !.place = Null]
Varied ==
  {[X EXCEPT !.place = p] : p \in {"q", "r", "s", "t", "u", Null}}
  \union {[X EXCEPT !.from = t[1], !.to = t[2]] : t \in {<<600, 660>>, <<660, 720>>, <<720, 660>>, <<540, Null>>, <<Null, Null>>}}
  \union {[X EXCEPT !.cost = c] : c \in {Null, Price(5000, 20499), Price(5000, 20500), Price(9, 8), [Price(1, 1) EXCEPT !.ours = FALSE]}}
  \union {[X EXCEPT !.type = k] : k \in {"accommodation", "break"}}
  \union {[Rides EXCEPT !.lasts = n] : n \in {Null, 55, 54, 65}}
  \union {[X EXCEPT !.id = "y"], [X EXCEPT !.cites = {2}], X}
Between == {Item("y", "r", 600, 660), Item("y", "p", 600, 660), [Item("y", Null, 540, 600) EXCEPT !.type = "transport"],
            Item("y", "t", Null, Null)}
Day(id, date, items) == [id |-> id, date |-> date, zone |-> TRUE, items |-> items]
Weeks(i, j) == {<<Day("a", 1, <<i, j>>)>>, <<Day("a", 1, <<j, i>>)>>, <<Day("a", 2, <<i>>), Day("b", 1, <<j>>)>>,
                <<Day("a", 1, <<i, j, Item("z", Null, 630, 690)>>)>>}
Oddities == {<<Day("a", 1, <<X>>), Day("b", 1, <<>>)>>, <<Day("a", 3, <<X>>)>>, <<Day("a", 1, <<X>>), Day("a", 2, <<>>)>>,
             <<[Day("a", 1, <<X>>) EXCEPT !.zone = FALSE]>>, <<Day("x", 1, <<X>>)>>, <<Day("a", 1, <<>>)>>}
Reply(days) == [sources |-> {Source(1, "read")}, blocked |-> FALSE, warned |-> {[code |-> "note", about |-> {}]}, days |-> days]
MCReplies ==
  {Reply(d) : d \in Oddities \union UNION {Weeks(i, j) : i \in Varied, j \in Between}}
  \union {[Reply(<<Day("a", 1, <<X>>)>>) EXCEPT !.sources = s] :
             s \in {{Source(1, "misread")}, {Source(1, "read"), Source(1, "misread")}, {Source(1, "read"), Source(2, "made up")}}}
  \union {[Reply(<<Day("a", 1, <<X>>)>>) EXCEPT !.blocked = TRUE]}

=============================================================================
