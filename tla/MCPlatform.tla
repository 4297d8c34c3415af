----------------------------- MODULE MCPlatform -----------------------------
(***************************************************************************)
(* Small values for the constants of the platform.                         *)
(***************************************************************************)
EXTENDS Platform, TLC

\* A page with a select, a database whose rows have a number, and a template with a required
\* title and a date; the operations are the valid ones and those that break one rule each.
Field(type, options, key, required) ==
    [type |-> type, options |-> options, key |-> key, required |-> required]
Write(kind, target, values) == [kind |-> kind, target |-> target, values |-> values]

MCOperations ==
    {Write("page_update", <<"page1">>, [s |-> "a"]), Write("page_update", <<"page1">>, [s |-> "b"]),
     Write("page_update", <<"page1">>, <<>>), Write("page_update", <<"page2">>, [s |-> "a"]),
     Write("row_create", <<"db1">>, [t |-> "a"]),
     Write("row_create", <<"db1">>, [t |-> "a", d |-> "2026"]),
     Write("row_create", <<"db1">>, [d |-> "2026"]),
     Write("row_update", <<"db1">>, [n |-> "7"]), Write("row_update", <<"db1">>, [n |-> "a"])}
MCPages == {<<"page1">>}
MCDatabases == {<<"db1">>}
MCFields ==
    (<<"page1">> :> [s |-> Field("select", {"a"}, "S", FALSE)])
      @@ (<<"row_in", <<"db1">>>> :> [n |-> Field("number", {}, "N", FALSE)])
MCTemplates ==
    <<"db1">> :> [t |-> Field("title", {}, "T", TRUE), d |-> Field("date", {}, "D", FALSE)]

\* The characters of so many bytes: the third byte ends a character, the fourth begins one.
MCCharsOf(bytes) == CASE bytes < 3 -> bytes [] bytes = 4 -> 2 [] OTHER -> 3
MCBodies ==
    {<<>>, <<2>>, <<3>>, <<4>>, <<2, 1>>, <<2, 2>>, <<3, 1>>, <<1, 1, 2>>, <<2, 3>>, <<4, 1>>}

\* An empty chunk, one that fits and one that is cut.
MCLength == 1 :> 0 @@ 2 :> 2 @@ 3 :> 4
=============================================================================
