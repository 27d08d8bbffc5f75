------------------------------- MODULE MCServer -------------------------------
(***************************************************************************)
(* Instances of Server for TLC.                                            *)
(***************************************************************************)
EXTENDS Server

\* One script for each way a handler can go, and two that end too early.
AllScripts == {<<>>,
               <<"status", "request", "ping">>,
               <<"status", "ping">>,
               <<"login">>,
               <<"ping">>,
               <<"request", "request">>}

\* A whole session, a client that falls silent and a rejected handshake.
SomeScripts == {<<"status", "request", "ping">>, <<"status">>, <<"ping">>}

===============================================================================
