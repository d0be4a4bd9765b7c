--------------------------- MODULE MCSessionStore ---------------------------
(***************************************************************************)
(* Instances of SessionStore for TLC: a server, whose tool calls import,   *)
(* retire and log in again, and the command line.                          *)
(***************************************************************************)
EXTENDS SessionStore

Server == "server"
Cli == "cli"

AllKinds == [p \in {Server, Cli} |->
  IF p = Server THEN {"login", "import", "retire"}
  ELSE {"logout", "import-session"}]

LoginKinds == [p \in {Server, Cli} |-> IF p = Server THEN {"login"} ELSE {}]

ImportKinds == [p \in {Server, Cli} |-> IF p = Server THEN {} ELSE {"import"}]

DeviceKinds == [p \in {Server, Cli} |-> IF p = Server THEN {"login"} ELSE {"import-session"}]

LogoutKinds == [p \in {Server, Cli} |-> IF p = Server THEN {"login", "retire"} ELSE {"logout"}]
=============================================================================
