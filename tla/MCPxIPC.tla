------------------------------ MODULE MCPxIPC -------------------------------
(***************************************************************************)
(* The instances PxIPCServ is checked on.                                  *)
(***************************************************************************)
EXTENDS PxIPCServ

CONSTANTS ctl, launcher, netcat

\* pxctl asks for the status of a service, waits for news of it and asks again;
\* the launcher of the service announces the news, twice; netcat sends a line
\* without its end.
PoliteScript ==
  [c \in Conns |-> CASE c = ctl -> <<"ask", "await", "ask">>
                     [] c = launcher -> <<"announce", "announce">>
                     [] c = netcat -> <<"oneway">>]

\* pxctl may be interrupted while it waits for an answer; netcat subscribes
\* twice without reading and sends a command too long for the server.
RudeScript ==
  [c \in Conns |-> CASE c = ctl -> <<"await", "ask">>
                     [] c = launcher -> <<"announce", "announce">>
                     [] c = netcat -> <<"await", "await", "long">>]

AskScript ==
  [c \in Conns |-> CASE c = ctl -> <<"ask">> [] c = launcher -> <<"oneway">>]
=============================================================================
