----------------------------- MODULE MCDataPath -----------------------------
(* A small instance of everything a value passes through between a client   *)
(* and the DA thread: messages (UAMessages), continued Browse answers       *)
(* (UABrowse), Read and Write (UADataAccess), monitored items               *)
(* (UASubscription), the conversions of values (DAValues) and the scanner   *)
(* of JSON bodies (JSONScan). They share no variable, so each behaviour     *)
(* follows one of them, the focus, and leaves the others as they began.     *)
EXTENDS UASubscription, UADataAccess, UABrowse, UAMessages, DAValues, JSONScan

CONSTANTS u1, i1, i2, d1, d2, p1, c1, c2, s1, s2

VARIABLE focus

\* Monitored items: two of one subscription, the second over an item that
\* cannot be read.
OneSubscription == {u1}
TwoItems == {i1, i2}
TwoDAItems == {d1, d2}
OnePublish == {p1}
AllOnFirst == [i \in TwoItems |-> u1]
Separate == [i \in TwoItems |-> IF i = i2 THEN d2 ELSE d1]
OwnHandles == [i \in TwoItems |-> i]
Unreadable2 == {d2}
Equal == [s \in OneSubscription |-> 0]
TwiceFirst == [n \in TwoDAItems |-> IF n = d1 THEN 2 ELSE 0]

TwoSessions == {s1, s2}
TwoCallers == {c1, c2}

\* x is an ordinary item, y is kept as VT_INT, z cannot be written.
ThreeItems == {"x", "y", "z"}
Types == [n \in ThreeItems |-> IF n = "y" THEN "int" ELSE "i4"]
AccessRights == [n \in ThreeItems |-> IF n = "z" THEN {"read"} ELSE {"read", "write"}]
Reading(n, kind, attribute) ==
    [node |-> n, kind |-> kind, attribute |-> attribute, plain |-> TRUE]
Writing(n, kind, plain) ==
    [node |-> n, kind |-> kind, attribute |-> "Value", plain |-> plain, type |-> "i4",
     declared |-> "unknown"]
Reads == {
    <<Reading("y", "item", "Value"), Reading("x", "property", "Value"),
      Reading("x", "item", "Value")>>,
    <<Reading("z", "item", "Value"), Reading("z", "item", "Description")>>}
Writes == {
    <<Writing("x", "item", TRUE), Writing("x", "item", TRUE)>>,
    <<Writing("z", "item", TRUE), Writing("x", "item", FALSE),
      Writing("y", "item", TRUE), Writing("z", "propertyItem", TRUE)>>}

\* Arrays of none, one and two elements, with a few picks of their contents. Two
\* of the least elements of every kind (pick 0) come to two UserTokenPolicies
\* that ReadGetEndpointsResponse refuses.
SizesAndPicks == ({0, 1} \X (0..6)) \cup ({2} \X (0..3))

\* Field names: as documented, as documented but escaped, in another case, with
\* U+017F (two bytes, folded to "s") for the "s", unknown.
Spelled(raw, means) == [raw |-> raw, means |-> means]
FieldSpellings == {Spelled("source", "source"), Spelled("s\\ource", "source"),
                   Spelled("Source", "Source"), Spelled("longSource", "longSource"),
                   Spelled("other", "other")}
Sizes == [source |-> 6, Source |-> 6, longSource |-> 7, other |-> 5]
CaseFolded == [source |-> "source", Source |-> "source", longSource |-> "source", other |-> "other"]

\* Integers of one, two, four and eight bytes, scaled down to two, three, four
\* and eight bits.
SmallHalves == (1 :> 2) @@ (2 :> 4) @@ (4 :> 8) @@ (8 :> 128)

PathInit ==
    /\ focus \in {"subscription", "access", "points", "messages", "values", "json"}
    /\ Init /\ AccessInit /\ PointsInit /\ ScanInit
    /\ focus # "subscription" => enabled = [s \in Subscriptions |-> TRUE]
    /\ IF focus = "messages" THEN MessagesInit
       ELSE message = [write |-> Struct(<<>>), read |-> Struct(<<>>), value |-> <<>>]
    /\ IF focus = "values" THEN ValuesInit ELSE sample = [kind |-> "none"]

PathNext ==
    /\ \/ focus = "subscription" /\ Next /\ UNCHANGED <<accessVars, pointVars, scanVars>>
       \/ focus = "access" /\ AccessNext /\ UNCHANGED <<vars, pointVars, scanVars>>
       \/ focus = "points" /\ PointsNext /\ UNCHANGED <<vars, accessVars, scanVars>>
       \/ focus = "json" /\ ScanNext /\ UNCHANGED <<vars, accessVars, pointVars>>
    /\ UNCHANGED <<focus, message, sample>>

PathSpec ==
    PathInit /\ [][PathNext]_<<focus, vars, accessVars, pointVars, scanVars, message, sample>>
=============================================================================
