---------------------------- MODULE NumberSeries ----------------------------
(***************************************************************************)
(* What an organisation is promised of its document numbers: under every   *)
(* key (an organisation and a year, for internships also a kind) the       *)
(* numbers that reach a committed document are Start[k] + 1, Start[k] + 2, *)
(* ... in commit order.  No number is skipped, none is handed out twice,   *)
(* and a number once granted stays granted.                                *)
(***************************************************************************)
EXTENDS Naturals, Sequences

CONSTANTS
    Keys,       \* the independent series
    Start,      \* Start[k]: the value the series k starts from, exclusive
    MaxGranted  \* bound: the longest series that is explored

VARIABLE granted  \* granted[k]: the numbers committed under k, oldest first

Init == granted = [k \in Keys |-> <<>>]

Grant(k) ==
    /\ Len(granted[k]) < MaxGranted
    /\ granted' = [granted EXCEPT ![k] = Append(@, Start[k] + Len(@) + 1)]

Next == \E k \in Keys : Grant(k)

Spec == Init /\ [][Next]_granted
=============================================================================
