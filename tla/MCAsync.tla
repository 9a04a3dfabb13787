--------------------------------- MODULE MCAsync ---------------------------------
(* A small instance of Async for TLC. *)
EXTENDS AsyncAlone, AsyncInTurn

CONSTANTS a, b

T(t) == [tag |-> t, arg |-> 0]
A(t, v) == [tag |-> t, arg |-> v]

MCValues == {a, b}
MCStart == <<a, b>>

MCPrograms == {
    <<T("get"), A("set", b), T("get")>>,
    <<A("var", b), T("get"), A("set", a), T("get")>>,
    <<T("get"), T("throw")>>,
    <<T("elements"), T("value")>>,
    <<T("elements"), A("element", 1), T("value")>>,
    <<A("var", a), T("elements"), T("get"), A("set", b), A("var", b), T("get"), A("set", a)>>,
    <<T("elements"), T("get"), A("var", b), T("get")>>,
    <<A("add", b), A("element", 2), T("value")>>,
    <<A("add", a), A("remove", 0), T("elements"), T("value")>>,
    <<T("elements"), T("value"), A("add", b)>>,
    <<A("remove", 1), A("remove", 0), T("elements"), T("value")>>,
    <<T("elements"), A("remove", 1), T("value")>>,
    <<T("elements"), A("remove", 0), T("value")>>,
    <<T("elements"), T("elements"), T("value"), T("get")>>,
    <<T("log")>> }

================================================================================
