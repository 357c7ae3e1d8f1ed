--------------------------- MODULE MCPlacesSearch ---------------------------
(* Deployments: three providers behind each kind of named chain, and single providers. *)
EXTENDS PlacesSearch

MCHttpStatuses == {200, 400, 401, 403, 404, 408, 429, 500, 504}
MCDeployments ==
  {[providers |-> {"twogis", "tomtom", "yandex"}, named |-> n] :
     n \in {<<"tomtom">>, <<"twogis", "tomtom">>}}
  \cup {[providers |-> {"twogis", "tomtom"}, named |-> <<"tomtom", "twogis">>],
        [providers |-> {"twogis"}, named |-> <<>>], [providers |-> {"yandex"}, named |-> <<"twogis">>]}
MCRequests == {r \in Request : Valid(r) /\ ~r.openNow}
=============================================================================
