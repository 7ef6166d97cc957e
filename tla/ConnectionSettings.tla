------------------------- MODULE ConnectionSettings -------------------------
(***************************************************************************)
(* What does not change during a connection: the parameters of Connection, *)
(* and of Handle, which has the connection with the real pipeline.         *)
(***************************************************************************)
EXTENDS Naturals

CONSTANTS
  MaxRequests,      \* bound: how many requests the client sends
  Settings          \* the servers, routes and clients considered

SettingType == [
  pipelining : BOOLEAN,       \* the client does not wait for responses
  keepAlive : BOOLEAN,        \* Server::keep_alive
  timeout : BOOLEAN,          \* Server::socket_timeout is set
  bodiesFail : BOOLEAN,       \* the Read of a streamed body may fail or panic
  usersHoldSocket : BOOLEAN]  \* a hook or route may panic with req.socket locked

ASSUME MaxRequestsAssumption == MaxRequests \in Nat
ASSUME SettingsAssumption == Settings \subseteq SettingType
=============================================================================
