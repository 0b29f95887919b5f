---------------------------- MODULE MCFrontEnds ----------------------------
(***************************************************************************)
(* An instance of FrontEnds for TLC: what browsers and administrators ask  *)
(* for at the same time.                                                   *)
(***************************************************************************)
EXTENDS FrontEnds, TLC

CONSTANTS c1, c2, a1, a2, m1

Request(path, query) == [kind |-> "get", path |-> path, query |-> query, from |-> m1]
Field(name, value) == [name |-> name, value |-> value]
Basic(user, password) == [kind |-> "basic", auth |-> <<user, password>>]
NameOnly(user) == [kind |-> "basic", auth |-> <<user>>]
Host(h) == [kind |-> "host", host |-> h]
Empty == [kind |-> "empty"]
Other == [kind |-> "other"]

wifidog(page) == <<"wifidog", page>>
StatusScript(user, password) ==
    <<Request(wifidog("status"), <<>>), Basic(user, password), Empty>>
LoginScript == <<Request(wifidog("auth"), <<Field("token", TRUE)>>), Empty>>
LogoutScript == <<Request(wifidog("auth"), <<Field("logout", FALSE), Field("token", TRUE)>>), Empty>>
DisconnectScript == <<Request(wifidog("disconnect"), <<Field("token", TRUE), Field("mac", TRUE)>>),
                      Basic("admin", "word"), Empty>>

Both(x, y) == c1 :> x @@ c2 :> y
Reset == [kind |-> "reset", about |-> m1, pieces |-> <<"line">>]
Command(kind, pieces) == [kind |-> kind, about |-> m1, pieces |-> pieces]
Two(x, y) == a1 :> x @@ a2 :> y

One(x) == a1 :> x
Only(x) == c1 :> x
NoOne == <<>>
\* A browser that sends nothing at all.
Silent == <<>>

Asking(scripts, commands, sessions) ==
    [scripts |-> scripts, commands |-> commands, sessions |-> sessions, elsewhere |-> 0]

BrowserScenarios ==
    {Asking(Both(StatusScript("admin", "word"), StatusScript("admin", "other")), NoOne, {}),
     Asking(Both(<<Request(wifidog("status"), <<>>), Basic("guest", "word"), NameOnly("admin"), Empty>>,
                 <<Request(wifidog("status"), <<>>), NameOnly("admin"), Empty>>), NoOne, {}),
     Asking(Both(<<Request(<<"wifidog", "x", "status">>, <<>>), Empty>>,
                 <<Request(<<"", "wifidog", ".", "y", "..", "about">>, <<>>), Other, Empty>>),
            NoOne, {}),
     Asking(Both(<<Request(<<"page">>, <<>>), Host("white"), Empty>>,
                 <<Request(<<"wifidog">>, <<>>)>>), NoOne, {}),
     Asking(Both(<<Other>>, <<Request(<<>>, <<>>), Empty>>), NoOne, {}),
     Asking(Both(<<Request(wifidog("auth"), <<Field("token", FALSE)>>), Empty>>,
                 <<Request(wifidog("disconnect"), <<Field("mac", TRUE)>>),
                   Basic("admin", "word"), Empty>>), NoOne, {m1})}
ClientScenarios ==
    {Asking(Only(LoginScript), One(Reset), {m1}),
     Asking(Only(LogoutScript), One(Reset), {m1}),
     Asking(Only(DisconnectScript), One(Reset), {m1}),
     Asking(Only(LogoutScript), NoOne, {}),
     Asking(NoOne, Two(Reset, Reset), {m1})}
AdminScenarios ==
    {Asking(NoOne, Two(Command("status", <<"text", "line">>), Command("stop", <<"line">>)), {}),
     Asking(NoOne, Two(Command("reset", <<"text">>), Command("restart", <<"line">>)), {}),
     Asking(NoOne, Two(Command("foreign", <<"line">>), Command("restart", <<"line">>)), {}),
     Asking(NoOne, Two(Command("status", <<"text", "flood">>), Command("nothing", <<"line">>)), {})}
\* The last descriptors, and the last threads.
LimitScenarios ==
    {[Asking(Both(Silent, <<Request(<<"wifidog">>, <<>>)>>), NoOne, {}) EXCEPT !.elsewhere = 2],
     [Asking(Only(LogoutScript), One(Command("status", <<"line">>)), {m1}) EXCEPT !.elsewhere = 1],
     [Asking(Only(Silent), One(Command("restart", <<"line">>)), {}) EXCEPT !.elsewhere = 1],
     [Asking(NoOne, One(Command("restart", <<"line">>)), {}) EXCEPT !.elsewhere = 2],
     Asking(Only(Silent), Two(Command("reset", <<"text">>), Command("reset", <<"text">>)), {})}
AllScenarios == BrowserScenarios \cup ClientScenarios \cup AdminScenarios \cup LimitScenarios

AuthReplies == {<<"head", "allowed">>, <<"denied">>, <<"failed">>}
Threads == Slots \cup Handlers
AdminOf == <<"admin", "word">>
=============================================================================
