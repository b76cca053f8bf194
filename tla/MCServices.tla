----------------------------- MODULE MCServices -----------------------------
EXTENDS Services

MCInterval == [arp |-> 4, tcp |-> 2]
MCNames == {<<"a">>, <<"b">>}
MCTexts == {<<1, 255>>, <<1, 1, 255>>}
MCDatagrams == <<4, 2, 2>>
MCPbufsOf == <<1, 1, 2>>

(* A longer fragment of another route, and one whose header has options.   *)
MCDetours == {[id |-> 1, start |-> 1, end |-> 3, mf |-> TRUE, clen |-> 1, options |-> FALSE],
              [id |-> 2, start |-> 0, end |-> 1, mf |-> TRUE, clen |-> 1, options |-> TRUE]}
=============================================================================
