--------------------------- MODULE ImportDelivery --------------------------
(***************************************************************************)
(* What RunImportSession promises its caller, without pipes, windows, pools *)
(* or timeouts: one session at a time takes what a producer announced, item *)
(* by item, in order and only while it is open, and a session that ends     *)
(* complete has taken everything.                                           *)
(***************************************************************************)
EXTENDS Naturals, Sequences

CONSTANTS
    Items,      \* what is delivered
    Sessions,   \* the ids of the sessions, 1..n
    Endings     \* the results a session can have, "complete" among them

VARIABLES
    session,    \* the latest session
    announced,  \* per session, what its producer announced
    delivered,  \* per session, what its caller was given
    result      \* per session, "open" or how it ended

vars == <<session, announced, delivered, result>>

Init ==
    /\ session = 0
    /\ announced = [s \in Sessions |-> <<>>]
    /\ delivered = [s \in Sessions |-> <<>>]
    /\ result = [s \in Sessions |-> "open"]

\* A session may fail as it begins, but not succeed.
Begin ==
    /\ session + 1 \in Sessions
    /\ session \in Sessions => result[session] # "open"
    /\ session' = session + 1
    /\ \E how \in {"open"} \cup (Endings \ {"complete"}) :
           result' = [result EXCEPT ![session'] = how]
    /\ UNCHANGED <<announced, delivered>>

\* The producer of a failed session may not have noticed yet.
Announce(item) ==
    /\ session \in Sessions
    /\ result[session] # "complete"
    /\ announced' = [announced EXCEPT ![session] = Append(@, item)]
    /\ UNCHANGED <<session, delivered, result>>

TakeNext ==
    LET taken == Len(delivered[session]) IN
        /\ taken < Len(announced[session])
        /\ delivered' = [delivered EXCEPT
                            ![session] = Append(@, announced[session][taken + 1])]

\* The next item is handed over, or the session ends, or both.
Serve ==
    /\ session \in Sessions
    /\ result[session] = "open"
    /\ TakeNext \/ UNCHANGED delivered
    /\ \E how \in {"open"} \cup Endings :
           /\ result' = [result EXCEPT ![session] = how]
           /\ how = "complete" => delivered'[session] = announced[session]
    /\ UNCHANGED <<session, announced>>

Next ==
    \/ Begin
    \/ \E item \in Items : Announce(item)
    \/ Serve

Spec == Init /\ [][Next]_vars
=============================================================================
