----------------------------- MODULE MCPxDaemon -----------------------------
(***************************************************************************)
(* The instances PxDaemon is checked on.                                   *)
(***************************************************************************)
EXTENDS PxDaemon

CONSTANTS app, db, log, ghost, ring, ring2, boot, halt

Must(s) == [name |-> s, optional |-> FALSE]
May(s)  == [name |-> s, optional |-> TRUE]
Nothing == [s \in Services |-> <<>>]   \* no lines at all

\* app needs db and would like log and a service nobody installed; db is to
\* start after log.
WebDepend ==
  [Nothing EXCEPT ![app] = <<Must(db), May(log), May(ghost)>>]
WebAfter == [Nothing EXCEPT ![db] = <<log>>]

Empty == [t \in Targets |-> {}]
BootEnablesApp == [Empty EXCEPT ![boot] = {app}]
HaltDisablesLog == [Empty EXCEPT ![halt] = {log}]

WebRequests ==
  {<<"start", app>>, <<"start", log>>, <<"start", ghost>>, <<"stop", app>>,
   <<"cascade-stop", db>>, <<"target", halt>>, <<"target", boot>>}

\* app needs db; ring and ring2 need each other, a mistake nothing detects.
RingDepend ==
  [Nothing EXCEPT ![app] = <<Must(db)>>, ![ring] = <<Must(ring2)>>,
                  ![ring2] = <<Must(ring)>>]
RingRequests ==
  {<<"start", app>>, <<"cascade-stop", db>>, <<"start", ring>>, <<"target", halt>>}

\* app needs db and ghost, which nobody installed.
BrokenDepend == [Nothing EXCEPT ![app] = <<Must(db), Must(ghost)>>]
AppDepend == [Nothing EXCEPT ![app] = <<Must(db)>>]
AppRequests == {<<"start", app>>, <<"stop", app>>}
HaltRequests == {<<"start", app>>, <<"target", halt>>}

Symmetry == Permutations(Clients)
=============================================================================
