--------------------------- MODULE MCTwogisLookups ---------------------------
(* A city that is known by its point and by its name, one region of it with rubrics. *)
EXTENDS TwogisLookups

MCNeeds ==
  {[scope |-> "point", kind |-> "area", category |-> TRUE, rating |-> FALSE],
   [scope |-> "point", kind |-> "near", category |-> FALSE, rating |-> TRUE],
   [scope |-> "name", kind |-> "address", category |-> FALSE, rating |-> FALSE]}

RegionItem(id, label, exact, qualified) == [id |-> id, label |-> label, exact |-> exact, qualified |-> qualified]
City(id, r, exact) == [id |-> id, region |-> r, exact |-> exact]
NotFound == [missing |-> TRUE]
AtPoint(items, total) == [missing |-> FALSE, items |-> items, total |-> total]
ByName(items, qualifier) == [missing |-> FALSE, items |-> items, qualifier |-> qualifier]
Cities(items) == [items |-> items]

Here == RegionItem("r1", "here", TRUE, TRUE)
There == RegionItem("r2", "there", TRUE, FALSE)
Service(p, n, x, a) ==
  [coverage |-> [s \in {"point", "name"} |-> IF s = "point" THEN p ELSE n],
   city |-> [s \in {"point", "name"} |-> IF s = "point" THEN Cities(<<City("c1", "r1", FALSE)>>) ELSE x],
   rubrics |-> [items |-> <<[id |-> "b", alias |-> "bar"], [id |-> "c", alias |-> "cafe"]>>], aliases |-> a]
OneNamed == Cities(<<City("c1", "r1", TRUE), City("c2", "r1", FALSE)>>)
Elsewhere == Cities(<<City("c2", "r2", TRUE)>>)
MCServices ==
  {Service(NotFound, NotFound, OneNamed, <<"pub">>),
   Service(AtPoint(<<Here>>, 1), ByName(<<Here, There>>, TRUE), OneNamed, <<"cafe", "bar">>),
   Service(AtPoint(<<Here>>, 2), ByName(<<Here, There>>, FALSE), OneNamed, <<"pub">>),
   Service(AtPoint(<<There>>, 1), ByName(<<Here>>, FALSE), Elsewhere, <<"cafe">>)}
=============================================================================
