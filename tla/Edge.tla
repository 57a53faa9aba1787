--------------------------------- MODULE Edge ---------------------------------
(***************************************************************************)
(* app/main.py: one request from the machine that makes it to the handler. *)
(* It travels through the proxies (ClientIp), then _BodySizeLimitASGI      *)
(* holds its body against the cap of its route (BodyLimit), and only then  *)
(* does a handler run, which resolves the address its budgets are kept by. *)
(***************************************************************************)
EXTENDS ClientIp, BodyLimit

vars == <<pathVars, bodyVars>>

Init == PathInit /\ BodyInit

-----------------------------------------------------------------------------

\* The request is on its way: the server has not seen any of it.
Travel ==
    /\ status = "new"
    /\ \/ \E next \in Addr : Observe(next)
       \/ \E next \in Addr, header \in Headers : Rewrite(header, next)
    /\ UNCHANGED bodyVars

\* _BodySizeLimitASGI.__call__ and limited_receive read no header but
\* Content-Length, and resolve nothing.
Receive ==
    /\ Screen \/ (\E n \in 1 .. MaxChunk : Chunk(n)) \/ Disconnect
    /\ UNCHANGED pathVars

\* The handler runs: all routes with a budget begin with client_ip, /attachment has
\* none.  That the body is read whole before it comes from the framework, and is
\* assumed here (Handle).
Serve ==
    /\ Handle
    /\ IF route = "attachment" THEN UNCHANGED pathVars ELSE Arrive

Next == Travel \/ Receive \/ Serve

Spec == Init /\ [][Next]_vars

-----------------------------------------------------------------------------
(* Properties *)

\* Types of both parts: a header is a list of addresses, however it was put together,
\* and the application is never ahead of what was received.
EdgeTypeOK == PathTypeOK /\ BodyTypeOK
=============================================================================
